---- MODULE Spec2Model ----
(***************************************************************************)
(* Model of the code execution service of skillify-analysis               *)
(* (src/server/services/code_execution_service.py and                      *)
(* code_execution_service_additional.py): CodeExecutionService.execute_code*)
(* with workspace allocation, artifact writing, the docker run, result    *)
(* reading and the SafeTempDir cleanup.                                    *)
(***************************************************************************)
EXTENDS Integers, Sequences, FiniteSets, TLC

VARIABLES
    docker_available,   \* self.docker_available, set by __init__
    pc,                 \* position of the execute_code call
    calls,              \* number of execute_code calls made so far
    language,           \* local `language` (after .lower())
    test_cases,         \* argument test_cases
    timeout,            \* argument timeout (seconds)
    temp_dir,           \* name made by tempfile.mkdtemp, NoDir before that
    dirs,               \* workspace directories that exist on disk
    files,              \* files inside the workspace of the current call
    results_file,       \* content of results.json in the workspace
    containers,         \* names of the docker containers that are running
    launched,           \* this call started a `docker run` process
    elapsed,            \* seconds the `docker run` process has been running
    result,             \* the list the call returns (NoResult before that)
    raised,             \* an exception escaped execute_code
    path,               \* which branch of the code produced `result`
    exit_ran,           \* SafeTempDir.__exit__ ran for this call
    todo,               \* paths shutil.rmtree still has to remove
    last,               \* what the last removal step did
    warnings,           \* logger.warning calls made by the cleanup of this call
    perm_seen,          \* a removal of this cleanup met a PermissionError
    captured,           \* what the `docker run` process of this call wrote (stderr)
    harness,            \* the generated run_tests.py at work: its locals
    requests,           \* execute_code calls made by concurrent threads
    worker,             \* BackgroundWorker: its dicts, the database, its threads
    grading             \* CorrectnessAnalyzer.analyze / _analyze_mcq_answers at work

vars == <<docker_available, pc, calls, language, test_cases, timeout, temp_dir,
          dirs, files, results_file, containers, launched, elapsed, result,
          raised, path, exit_ran, todo, last, warnings, perm_seen, captured,
          harness, requests, worker, grading>>

\* What the code execution service and its harness never touch.
beyond == <<requests, worker, grading>>

(***************************************************************************)
(* Bounds of the model.                                                    *)
(***************************************************************************)
MaxTests == 2
MaxCalls == 1
MaxNames == 1

(***************************************************************************)
(* Program constants.                                                      *)
(***************************************************************************)
DEFAULT_TIMEOUT == 10
TimeoutFloor == 10
MsPerSecond == 1000

DOCKER_IMAGES == <<"python", "javascript", "java", "cpp", "csharp", "go", "ruby">>

SupportedLanguages == {DOCKER_IMAGES[i] : i \in DOMAIN DOCKER_IMAGES}

\* Language tags a caller passes: the supported ones, one in another case,
\* and one outside the supported set.
LanguageTags == SupportedLanguages \cup {"Ruby", "cobol"}

\* Caller timeouts: below, at and above the floor of max(timeout, 10).
Timeouts == {DEFAULT_TIMEOUT - 5, DEFAULT_TIMEOUT, DEFAULT_TIMEOUT + 5}

NoDir == 0
Names == 1..MaxNames
NoResult == <<>>
None == "<None>"
Absent == [kind |-> "absent"]
Garbage == [kind |-> "garbage"]
NoHarness == [pc |-> "off"]
NoRequests == <<>>
NoWorker == [pc |-> "off"]
NoGrading == [pc |-> "off"]

(***************************************************************************)
(* Strings.                                                                *)
(***************************************************************************)
UpperCase == "ABCDEFGHIJKLMNOPQRSTUVWXYZ"
LowerCase == "abcdefghijklmnopqrstuvwxyz"

CharAt(s, i) == SubSeq(s, i, i)

LowerChar(c) ==
    IF \E k \in 1..Len(UpperCase) : CharAt(UpperCase, k) = c
    THEN CharAt(LowerCase, CHOOSE k \in 1..Len(UpperCase) : CharAt(UpperCase, k) = c)
    ELSE c

RECURSIVE Lower(_)
Lower(s) == IF s = "" THEN "" ELSE LowerChar(CharAt(s, 1)) \o Lower(SubSeq(s, 2, Len(s)))

RECURSIVE Join(_, _)
Join(sep, seq) ==
    IF seq = <<>> THEN ""
    ELSE IF Len(seq) = 1 THEN seq[1]
    ELSE seq[1] \o sep \o Join(sep, Tail(seq))

Contains(s, sub) ==
    \E i \in 1..(Len(s) - Len(sub) + 1) : SubSeq(s, i, i + Len(sub) - 1) = sub

RECURSIVE LStrip(_)
LStrip(s) == IF s # "" /\ CharAt(s, 1) = " " THEN LStrip(SubSeq(s, 2, Len(s))) ELSE s

RECURSIVE RStrip(_)
RStrip(s) ==
    IF s # "" /\ CharAt(s, Len(s)) = " " THEN RStrip(SubSeq(s, 1, Len(s) - 1)) ELSE s

Strip(s) == RStrip(LStrip(s))

(***************************************************************************)
(* Requests.                                                               *)
(***************************************************************************)
\* The test cases of src/tests (reverse_string, find_duplicates).
BaseCases ==
    << [input |-> "hello", expected_output |-> "olleh"],
       [input |-> "[1, 2, 2]", expected_output |-> "[2]"],
       [input |-> "python", expected_output |-> "nohtyp"] >>

TestCaseAt(i) == BaseCases[((i - 1) % Len(BaseCases)) + 1]

\* The lists a caller passes: the first n test cases, n = 0..MaxTests, so
\* that neighbouring positions hold different test cases.
TestLists == { [i \in 1..n |-> TestCaseAt(i)] : n \in 0..MaxTests }

\* What one invocation of the submitted function does: it returns a value
\* (given by its str()) or raises.
ReturnValues == {"olleh", " [2]"}

InvocationOutcomes ==
    { [kind |-> "returns", value |-> v] : v \in ReturnValues }
        \cup { [kind |-> "raises", value |-> ""] }

(***************************************************************************)
(* Result records.                                                         *)
(***************************************************************************)
SyntheticRecord(id, time, msg) ==
    [ test_case_id    |-> id,
      passed          |-> FALSE,
      actual_output   |-> "",
      expected_output |-> "",
      execution_time  |-> time,
      error_message   |-> msg ]

DockerUnavailableMessage ==
    "Docker is not available. Code execution requires Docker for security."

UnsupportedMessage(lang) ==
    "Language " \o lang \o " not supported. Supported languages: "
        \o Join(", ", DOCKER_IMAGES)

DockerUnavailableRecord == SyntheticRecord("error", 0, DockerUnavailableMessage)

UnsupportedRecord(lang) == SyntheticRecord("error", 0, UnsupportedMessage(lang))

TempDirErrorRecord(diag) ==
    SyntheticRecord("error", 0, "Error creating temporary directory: " \o diag)

ExecutingErrorRecord(diag) ==
    SyntheticRecord("error", 0, "Error executing code: " \o diag)

MissingResultsRecord ==
    SyntheticRecord("error", 0, "Failed to get results from Docker container")

DockerErrorRecord(diag) ==
    SyntheticRecord("error", 0, "Docker execution error: " \o diag)

DummyErrorRecord(lang, diag) ==
    SyntheticRecord("error", 0,
        (IF lang = "javascript" THEN "JavaScript" ELSE "Java")
            \o " execution error: " \o diag)

\* The limit with no floor: the caller's timeout as given.
CallerTimeout(t) == t

\* A limit that ignores the caller: the floor for every request.
FloorOnly(t) == TimeoutFloor

ActualTimeout(t) == IF t > TimeoutFloor THEN t ELSE TimeoutFloor

TimeoutRecord(t) ==
    SyntheticRecord("timeout", ActualTimeout(t) * MsPerSecond,
        "Execution timed out after " \o ToString(ActualTimeout(t)) \o " seconds")

(***************************************************************************)
(* The generated harnesses (what runs inside the container).               *)
(***************************************************************************)
\* Identifiers counted from one.
TestIdOneBased(i) == "test_" \o ToString(i)

TestId(i) == "test_" \o ToString(i - 1)

NoFunctionRecord(i, tc) ==
    [ test_case_id    |-> TestId(i),
      passed          |-> FALSE,
      actual_output   |-> "",
      expected_output |-> tc.expected_output,
      execution_time  |-> 0,
      error_message   |-> "No suitable function found" ]

\* The record of a harness that compares the texts as they are (as main.go
\* does), without strip().
PythonRecordExact(i, tc, oc) ==
    IF oc.kind = "returns"
    THEN [ test_case_id    |-> TestId(i),
           passed          |-> oc.value = tc.expected_output,
           actual_output   |-> oc.value,
           expected_output |-> tc.expected_output,
           execution_time  |-> 1,
           memory_usage    |-> 0,
           error_message   |-> None ]
    ELSE [ test_case_id    |-> TestId(i),
           passed          |-> FALSE,
           actual_output   |-> "",
           expected_output |-> tc.expected_output,
           execution_time  |-> 0,
           memory_usage    |-> 0,
           error_message   |-> "boom\nTraceback (most recent call last)" ]

PythonRecord(i, tc, oc) ==
    IF oc.kind = "returns"
    THEN [ test_case_id    |-> TestId(i),
           passed          |-> Strip(oc.value) = Strip(tc.expected_output),
           actual_output   |-> oc.value,
           expected_output |-> tc.expected_output,
           execution_time  |-> 1,
           memory_usage    |-> 0,
           error_message   |-> None ]
    ELSE [ test_case_id    |-> TestId(i),
           passed          |-> FALSE,
           actual_output   |-> "",
           expected_output |-> tc.expected_output,
           execution_time  |-> 0,
           memory_usage    |-> 0,
           error_message   |-> "boom\nTraceback (most recent call last)" ]

\* What the harness would write if it skipped a test whose function is
\* missing instead of recording it (the properties tell the two apart).
PythonHarnessSkipping(tcs, has_func, ocs) ==
    IF has_func
    THEN [ i \in 1..Len(tcs) |-> PythonRecord(i, tcs[i], ocs[i]) ]
    ELSE <<>>

\* run_tests.py: one record per test case, in order.  has_func is whether the
\* solution module exposes a callable; ocs[i] is what the i-th invocation does.
PythonHarness(tcs, has_func, ocs) ==
    [ i \in 1..Len(tcs) |->
        IF has_func THEN PythonRecord(i, tcs[i], ocs[i])
        ELSE NoFunctionRecord(i, tcs[i]) ]

RubyRecord(i, tc) ==
    [ test_case_id    |-> TestId(i),
      passed          |-> FALSE,
      actual_output   |-> "",
      expected_output |-> tc.expected_output,
      execution_time  |-> 0,
      memory_usage    |-> 0,
      error_message   |-> "Ruby execution not fully implemented yet" ]

RubyHarness(tcs) == [ i \in 1..Len(tcs) |-> RubyRecord(i, tcs[i]) ]

\* A record for a test case that was run and did not pass.
DummyRecordFailed(i, tc) ==
    [ test_case_id    |-> "test_" \o ToString(i - 1),
      passed          |-> FALSE,
      actual_output   |-> "",
      expected_output |-> tc.expected_output,
      execution_time  |-> 0,
      memory_usage    |-> 0,
      error_message   |-> "expected output not produced" ]

DummyRecord(i, tc) ==
    [ test_case_id    |-> TestId(i),
      passed          |-> TRUE,
      actual_output   |-> tc.expected_output,
      expected_output |-> tc.expected_output,
      execution_time  |-> 0,
      memory_usage    |-> 0,
      error_message   |-> None ]

DummyResults(tcs) == [ i \in 1..Len(tcs) |-> DummyRecord(i, tcs[i]) ]

\* Languages whose container command can run to completion: cpp runs
\* `bash build_and_run.sh`, a file nobody writes; csharp runs `python` in the
\* dotnet image; main.go declares `input` and never uses it, so `go run` fails.
HarnessCanComplete(lang) == lang \in {"python", "ruby"}

\* json.dump followed by json.load of the harness's list.
JsonFile(value) == [kind |-> "json", value |-> value]

(***************************************************************************)
(* SafeTempDir: the workspace and its cleanup.                             *)
(***************************************************************************)
TopDir == "<temp_dir>"

FileOrder == <<"solution", "test_cases.json", "runner", "results.json">>

ArtifactFiles == <<"solution", "test_cases.json", "runner">>

NoStep ==
    [path |-> "", err |-> "none", calls |-> 0, chmod |-> "none",
     removed |-> FALSE, logged |-> FALSE]

\* A removal that empties the directory and leaves the directory itself.
RmtreeEntriesOnly(fs) == SelectSeq(FileOrder, LAMBDA f : f \in fs)

\* The paths shutil.rmtree removes, in order: the entries, then the directory.
RmtreeOrder(fs) == SelectSeq(FileOrder, LAMBDA f : f \in fs) \o <<TopDir>>

\* A handler that only logs: no chmod, no second call of func.
HandleErrorLogOnly(p, err, chmod_ok, retry_ok) ==
    [path |-> p, err |-> err, calls |-> 1, chmod |-> "none",
     removed |-> FALSE, logged |-> TRUE]

\* _handle_error_readonly_files(func, path, exc_info): what the onerror
\* handler does after func(path) failed with err.  os.chmod may fail too
\* (the path belongs to another user); func(path) is then not called again.
HandleErrorReadonlyFiles(p, err, chmod_ok, retry_ok) ==
    IF err = "PermissionError"
    THEN IF chmod_ok
         THEN [path |-> p, err |-> err, calls |-> 2, chmod |-> "ok",
               removed |-> retry_ok, logged |-> ~retry_ok]
         ELSE [path |-> p, err |-> err, calls |-> 1, chmod |-> "failed",
               removed |-> FALSE, logged |-> TRUE]
    ELSE [path |-> p, err |-> err, calls |-> 1, chmod |-> "none",
          removed |-> FALSE, logged |-> TRUE]

\* One removal of shutil.rmtree: func(path), and the handler when it fails.
RemovalStep(p, err, chmod_ok, retry_ok) ==
    IF err = "none"
    THEN [path |-> p, err |-> err, calls |-> 1, chmod |-> "none",
          removed |-> TRUE, logged |-> FALSE]
    ELSE HandleErrorReadonlyFiles(p, err, chmod_ok, retry_ok)

RemovalErrors == {"none", "PermissionError", "OSError"}

\* What shutil.rmtree does after the handler returned for one path: it goes
\* on with the remaining paths.
AfterRemoval(rest, step) == rest

(***************************************************************************)
(* Exceptions and the handlers that turn them into records.                *)
(***************************************************************************)
SubprocessErrors == {"CalledProcessError", "TimeoutExpired"}

\* str(e): the text of an exception.  A CalledProcessError prints the command
\* and the exit status; the output captured from the process is kept in its
\* stderr attribute and is no part of str(e).
ExcStr(e) ==
    CASE e = "CalledProcessError" ->
            "Command '['docker', 'run']' returned non-zero exit status 1."
      [] e = "TimeoutExpired" -> "Command '['docker', 'run']' timed out"
      [] e = "FileNotFoundError" -> "[Errno 2] No such file or directory: 'docker'"
      [] e = "JSONDecodeError" -> "Expecting value: line 1 column 1 (char 0)"
      [] OTHER -> "[Errno 28] No space left on device"

\* What docker writes when it cannot start the container.
DaemonStderr == "docker: Error response from daemon"

\* What the container command writes before it exits non-zero.
HarnessStderr(lang) ==
    CASE lang = "python" -> "SyntaxError: invalid syntax"
      [] lang = "go" -> "./main.go: declared and not used: input"
      [] lang = "cpp" -> "bash: build_and_run.sh: No such file or directory"
      [] lang = "csharp" -> "exec: python: executable file not found"
      [] OTHER -> "run_tests.rb: cannot load such file"

\* A handler clause that names subprocess.SubprocessError only.
IsSubprocessError(e) == e \in SubprocessErrors

\* except Exception: every exception class met here derives from Exception.
IsException(e) ==
    e \in SubprocessErrors \cup {"OSError", "FileNotFoundError", "JSONDecodeError"}

Returns(res, branch) ==
    [raised |-> FALSE, exc |-> "none", result |-> res, path |-> branch]

Raises(e) == [raised |-> TRUE, exc |-> e, result |-> NoResult, path |-> "raised"]

\* The except clauses of _run_in_docker around subprocess.run (python branch
\* and the branch of the other languages are the same).
RunInDockerExcept(e, t) ==
    IF e = "TimeoutExpired"
    THEN Returns(<<TimeoutRecord(t)>>, "timeout")
    ELSE IF e \in SubprocessErrors
    THEN Returns(<<DockerErrorRecord(ExcStr(e))>>, "runtime_error")
    ELSE Raises(e)

\* except Exception of the javascript and java branches.
DummyExcept(lang, e) ==
    IF IsException(e)
    THEN Returns(<<DummyErrorRecord(lang, ExcStr(e))>>, "dummy_error")
    ELSE Raises(e)

\* The inner except of execute_code (lines 171-180).
InnerExcept(o, branch) ==
    IF o.raised /\ IsException(o.exc)
    THEN Returns(<<ExecutingErrorRecord(ExcStr(o.exc))>>, branch)
    ELSE o

\* The outer except of execute_code (lines 181-190).
OuterExcept(o) ==
    IF o.raised /\ IsException(o.exc)
    THEN Returns(<<TempDirErrorRecord(ExcStr(o.exc))>>, "mkdtemp_failed")
    ELSE o

(***************************************************************************)
(* execute_code.                                                           *)
(***************************************************************************)
\* The early returns without the language check.
EarlyReturnDockerOnly(available, lang) ==
    IF ~available
    THEN Returns(<<DockerUnavailableRecord>>, "docker_unavailable")
    ELSE Returns(NoResult, "none")

\* Lines 130-150: the two early returns, in the order the code makes them.
EarlyReturn(available, lang) ==
    IF ~available
    THEN Returns(<<DockerUnavailableRecord>>, "docker_unavailable")
    ELSE IF lang \notin SupportedLanguages
    THEN Returns(<<UnsupportedRecord(lang)>>, "unsupported")
    ELSE Returns(NoResult, "none")

ServiceIdle ==
    /\ docker_available \in BOOLEAN
    /\ pc = "idle"
    /\ calls = 0
    /\ language = ""
    /\ test_cases = <<>>
    /\ timeout = DEFAULT_TIMEOUT
    /\ temp_dir = NoDir
    /\ dirs = {}
    /\ files = {}
    /\ results_file = Absent
    /\ containers = {}
    /\ launched = FALSE
    /\ elapsed = 0
    /\ result = NoResult
    /\ raised = FALSE
    /\ path = "none"
    /\ exit_ran = FALSE
    /\ todo = <<>>
    /\ last = NoStep
    /\ warnings = 0
    /\ perm_seen = FALSE
    /\ captured = ""

\* A service object just constructed; no harness is at work.
Init ==
    /\ ServiceIdle
    /\ harness = NoHarness
    /\ requests = NoRequests
    /\ worker = NoWorker
    /\ grading = NoGrading

\* execute_code(code, language, test_cases, timeout) up to the `with`.
\* A call that probes the runtime again and finds it gone.
ProbedAgain(flag) == FALSE

\* self.docker_available across execute_code: the method reads the flag that
\* __init__ stored and never assigns it or runs `docker --version`.
CachedFlag(flag) == flag

Call(tag, tcs, t) ==
    /\ pc = "idle"
    /\ calls < MaxCalls
    /\ calls' = calls + 1
    /\ docker_available' = CachedFlag(docker_available)
    /\ language' = Lower(tag)
    /\ test_cases' = tcs
    /\ timeout' = t
    /\ LET early == EarlyReturn(docker_available, Lower(tag)) IN
         /\ result' = early.result
         /\ path' = early.path
         /\ pc' = IF early.path = "none" THEN "alloc" ELSE "returned"
    /\ UNCHANGED <<beyond, harness, captured, temp_dir, dirs, files, results_file, containers,
                   launched, elapsed, raised, exit_ran, todo, last, warnings,
                   perm_seen>>

\* The caller has the list; the frame of the call and its locals are gone.
\* What stays is the service object, the disk and the docker daemon.
ReturnToCaller ==
    /\ pc = "returned"
    /\ pc' = "idle"
    /\ language' = ""
    /\ test_cases' = <<>>
    /\ timeout' = DEFAULT_TIMEOUT
    /\ temp_dir' = NoDir
    /\ files' = {}
    /\ results_file' = Absent
    /\ launched' = FALSE
    /\ result' = NoResult
    /\ raised' = FALSE
    /\ path' = "none"
    /\ exit_ran' = FALSE
    /\ todo' = <<>>
    /\ last' = NoStep
    /\ warnings' = 0
    /\ perm_seen' = FALSE
    /\ captured' = ""
    /\ UNCHANGED <<beyond, harness, docker_available, calls, dirs, containers, elapsed>>

\* Where control goes when the body of the `with` ends with outcome o while
\* the workspace holds the files fs: SafeTempDir.__exit__ runs shutil.rmtree
\* before the value is returned (or the exception goes on).
\* A `with` statement whose context manager has no __exit__ work to do.
WithoutExit(o, fs) == [pc |-> "returned", exit_ran |-> FALSE, todo |-> <<>>]

WithExit(o, fs) == [pc |-> "cleanup", exit_ran |-> TRUE, todo |-> RmtreeOrder(fs)]

LeaveWith(o, fs) ==
    /\ result' = o.result
    /\ path' = o.path
    /\ raised' = o.raised
    /\ exit_ran' = WithExit(o, fs).exit_ran
    /\ todo' = WithExit(o, fs).todo
    /\ pc' = WithExit(o, fs).pc

\* SafeTempDir.__init__: tempfile.mkdtemp makes a directory that did not
\* exist, or raises (outer except of execute_code).
Allocate ==
    /\ pc = "alloc"
    /\ \/ \E nm \in Names \ dirs :
            /\ temp_dir' = nm
            /\ dirs' = dirs \cup {nm}
            /\ pc' = "write"
            /\ UNCHANGED <<result, path, raised>>
       \/ LET o == OuterExcept(Raises("OSError")) IN
            /\ result' = o.result
            /\ path' = o.path
            /\ raised' = o.raised
            /\ pc' = "returned"
            /\ UNCHANGED <<temp_dir, dirs>>
    /\ UNCHANGED <<beyond, harness, captured, docker_available, calls, language, test_cases, timeout, files,
                   results_file, containers, launched, elapsed, exit_ran,
                   todo, last, warnings, perm_seen>>

\* _write_code_file, json.dump(test_cases), _write_test_runner: k of the
\* three artifacts are written before an exception (none when k = 3).
WriteArtifacts ==
    /\ pc = "write"
    /\ \E k \in 0..Len(ArtifactFiles) :
        /\ files' = {ArtifactFiles[i] : i \in 1..k}
        /\ IF k = Len(ArtifactFiles)
           THEN /\ pc' = "run"
                /\ UNCHANGED <<result, path, raised, exit_ran, todo>>
           ELSE LeaveWith(OuterExcept(InnerExcept(Raises("OSError"), "write_failed")),
                          {ArtifactFiles[i] : i \in 1..k})
    /\ UNCHANGED <<beyond, harness, captured, docker_available, calls, language, test_cases, timeout, temp_dir,
                   dirs, results_file, containers, launched, elapsed,
                   last, warnings, perm_seen>>

(***************************************************************************)
(* _run_in_docker.                                                         *)
(***************************************************************************)
DummyLanguages == {"javascript", "java"}

\* javascript and java branches: no container; the test cases are read back
\* and one passing record per test case is made up and written.
RunDummy ==
    /\ pc = "run"
    /\ language \in DummyLanguages
    /\ \/ /\ files' = files \cup {"results.json"}
          /\ results_file' = JsonFile(DummyResults(test_cases))
          /\ LeaveWith(Returns(DummyResults(test_cases), "dummy"),
                       files \cup {"results.json"})
       \/ /\ LeaveWith(OuterExcept(InnerExcept(DummyExcept(language, "OSError"),
                                               "dummy_error")), files)
          /\ UNCHANGED <<files, results_file>>
    /\ UNCHANGED <<beyond, harness, captured, docker_available, calls, language, test_cases, timeout, temp_dir,
                   dirs, containers, launched, elapsed, last, warnings, perm_seen>>

\* subprocess.run(["docker", "run", "--name", container_name, ...]): the
\* container starts, or the docker binary cannot be executed (an OSError,
\* which _run_in_docker does not catch), or docker exits non-zero before any
\* container runs (CalledProcessError).  A container of that name that is
\* still running makes docker refuse the name.
Launch ==
    /\ pc = "run"
    /\ language \notin DummyLanguages
    /\ \/ /\ temp_dir \notin containers
          /\ containers' = containers \cup {temp_dir}
          /\ launched' = TRUE
          /\ pc' = "running"
          /\ UNCHANGED <<result, path, raised, exit_ran, todo, captured>>
       \/ /\ LeaveWith(OuterExcept(InnerExcept(
                 RunInDockerExcept("FileNotFoundError", timeout), "launch_error")), files)
          /\ UNCHANGED <<containers, launched, captured>>
       \/ /\ LeaveWith(OuterExcept(InnerExcept(
                 RunInDockerExcept("CalledProcessError", timeout), "launch_error")), files)
          /\ launched' = TRUE
          /\ captured' = DaemonStderr
          /\ UNCHANGED containers
    /\ elapsed' = 0
    /\ UNCHANGED <<beyond, harness, docker_available, calls, language, test_cases, timeout, temp_dir,
                   dirs, files, results_file, last, warnings, perm_seen>>

\* One second passes while subprocess.run waits for the docker process.
Tick ==
    /\ pc = "running"
    /\ elapsed < ActualTimeout(timeout)
    /\ elapsed' = elapsed + 1
    /\ UNCHANGED <<beyond, harness, captured, docker_available, pc, calls, language, test_cases, timeout,
                   temp_dir, dirs, files, results_file, containers, launched,
                   result, raised, path, exit_ran, todo, last, warnings, perm_seen>>

\* What the harness of `lang` leaves in results.json when the container
\* command exits 0.  A python solution may end the interpreter with status 0
\* before the harness writes (no file); the file may be unreadable as JSON.
HarnessOutputs(lang, tcs) ==
    {Garbage}
        \cup (IF lang = "python"
              THEN {Absent} \cup
                   { JsonFile(PythonHarness(tcs, hf, ocs)) :
                        hf \in BOOLEAN, ocs \in [1..Len(tcs) -> InvocationOutcomes] }
              ELSE { JsonFile(RubyHarness(tcs)) })

\* The container command exits 0 within the limit; --rm removes the container.
HarnessExitZero ==
    /\ pc = "running"
    /\ elapsed < ActualTimeout(timeout)
    /\ HarnessCanComplete(language)
    /\ \E out \in HarnessOutputs(language, test_cases) :
        /\ results_file' = out
        /\ files' = IF out = Absent THEN files ELSE files \cup {"results.json"}
    /\ containers' = containers \ {temp_dir}
    /\ pc' = "read"
    /\ elapsed' = 0
    /\ UNCHANGED <<beyond, harness, captured, docker_available, calls, language, test_cases, timeout, temp_dir,
                   dirs, launched, result, raised, path, exit_ran, todo,
                   last, warnings, perm_seen>>

\* The container command exits non-zero within the limit (check=True raises
\* CalledProcessError, a SubprocessError); --rm removes the container.
HarnessExitNonZero ==
    /\ pc = "running"
    /\ elapsed < ActualTimeout(timeout)
    /\ containers' = containers \ {temp_dir}
    /\ LeaveWith(OuterExcept(InnerExcept(
           RunInDockerExcept("CalledProcessError", timeout), "runtime_error")), files)
    /\ captured' = HarnessStderr(language)
    /\ elapsed' = 0
    /\ UNCHANGED <<beyond, harness, docker_available, calls, language, test_cases, timeout, temp_dir,
                   dirs, files, results_file, launched, last, warnings, perm_seen>>

\* What the TimeoutExpired handler does to the running containers: it only
\* builds the record (subprocess.run has killed the docker client process,
\* which does not stop the container).
AfterTimeout(running, name) == running

\* subprocess.run raises TimeoutExpired once the limit is reached.
TimeoutExpired ==
    /\ pc = "running"
    /\ elapsed >= ActualTimeout(timeout)
    /\ containers' = AfterTimeout(containers, temp_dir)
    /\ LeaveWith(OuterExcept(InnerExcept(
           RunInDockerExcept("TimeoutExpired", timeout), "runtime_error")), files)
    /\ elapsed' = 0
    /\ UNCHANGED <<beyond, harness, captured, docker_available, calls, language, test_cases, timeout, temp_dir,
                   dirs, files, results_file, launched, last, warnings, perm_seen>>

\* A reader with no os.path.exists branch: a missing file reads as no records.
ReadResultsFileUnchecked(content) ==
    IF content = Absent
    THEN Returns(<<>>, "missing")
    ELSE IF content = Garbage
    THEN Raises("JSONDecodeError")
    ELSE Returns(content.value, "completed")

\* A reader that takes an unparseable file for an empty list of records.
ReadResultsFileLenient(content) ==
    IF content = Absent
    THEN Returns(<<MissingResultsRecord>>, "missing")
    ELSE IF content = Garbage
    THEN Returns(<<>>, "completed")
    ELSE Returns(content.value, "completed")

\* Lines 988-1002 / 1146-1160: os.path.exists and json.load.
ReadResultsFile(content) ==
    IF content = Absent
    THEN Returns(<<MissingResultsRecord>>, "missing")
    ELSE IF content = Garbage
    THEN Raises("JSONDecodeError")
    ELSE Returns(content.value, "completed")

ReadResults ==
    /\ pc = "read"
    /\ LeaveWith(OuterExcept(InnerExcept(ReadResultsFile(results_file), "unparseable")),
                 files)
    /\ UNCHANGED <<beyond, harness, captured, docker_available, calls, language, test_cases, timeout, temp_dir,
                   dirs, files, results_file, containers, launched, elapsed,
                   last, warnings, perm_seen>>

\* A container whose docker client was killed ends by itself later (--rm).
ContainerExit ==
    /\ \E c \in containers :
        /\ ~(pc = "running" /\ c = temp_dir)
        /\ containers' = containers \ {c}
    /\ UNCHANGED <<beyond, harness, captured, docker_available, pc, calls, language, test_cases, timeout,
                   temp_dir, dirs, files, results_file, launched, elapsed, result,
                   raised, path, exit_ran, todo, last, warnings, perm_seen>>

(***************************************************************************)
(* SafeTempDir.__exit__: shutil.rmtree(self.name, onerror=...).            *)
(***************************************************************************)
\* One path is removed (or not).  os.rmdir of the directory cannot succeed
\* while an entry is left in it.
RemovePath ==
    /\ pc = "cleanup"
    /\ todo # <<>>
    /\ LET p == Head(todo) IN
       \E err \in RemovalErrors, chmod_ok \in BOOLEAN, retry_ok \in BOOLEAN :
         LET step == RemovalStep(p, err, chmod_ok, retry_ok) IN
           /\ (p = TopDir /\ files # {}) => ~step.removed
           /\ last' = step
           /\ warnings' = warnings + (IF step.logged THEN 1 ELSE 0)
           /\ perm_seen' = (perm_seen \/ err = "PermissionError")
           /\ files' = IF p # TopDir /\ step.removed THEN files \ {p} ELSE files
           /\ dirs' = IF p = TopDir /\ step.removed THEN dirs \ {temp_dir} ELSE dirs
           /\ todo' = AfterRemoval(Tail(todo), step)
           /\ pc' = IF AfterRemoval(Tail(todo), step) = <<>> THEN "returned" ELSE "cleanup"
    /\ UNCHANGED <<beyond, harness, captured, docker_available, calls, language, test_cases, timeout, temp_dir,
                   results_file, containers, launched, elapsed, result, raised,
                   path, exit_ran>>

Next ==
    \/ \E tag \in LanguageTags, tcs \in TestLists, t \in Timeouts : Call(tag, tcs, t)
    \/ Allocate
    \/ WriteArtifacts
    \/ RunDummy
    \/ Launch
    \/ Tick
    \/ HarnessExitZero
    \/ HarnessExitNonZero
    \/ TimeoutExpired
    \/ ReadResults
    \/ ContainerExit
    \/ RemovePath
    \/ ReturnToCaller

Spec == Init /\ [][Next]_vars

(***************************************************************************)
(* The generated harness, test case by test case (run_tests.py,            *)
(* run_tests.js, TestRunner.java, run_tests.rb).                           *)
(***************************************************************************)
MaxFuncs == 2

\* Values the harness handles: a string, a number, an array of numbers.
StrV(s) == [t |-> "str", v |-> s]
IntV(n) == [t |-> "int", v |-> n]
ListV(xs) == [t |-> "list", v |-> xs]

Digits == "0123456789"

IsDigit(c) == \E k \in 1..Len(Digits) : CharAt(Digits, k) = c

DigitValue(c) == (CHOOSE k \in 1..Len(Digits) : CharAt(Digits, k) = c) - 1

IsNumber(tok) == tok # "" /\ \A k \in 1..Len(tok) : IsDigit(CharAt(tok, k))

RECURSIVE ParseInt(_)
ParseInt(tok) ==
    IF tok = "" THEN 0
    ELSE 10 * ParseInt(SubSeq(tok, 1, Len(tok) - 1)) + DigitValue(CharAt(tok, Len(tok)))

\* str.split(sep) for a one-character separator.
RECURSIVE Split(_, _)
Split(s, sep) ==
    IF \E k \in 1..Len(s) : CharAt(s, k) = sep
    THEN LET k == CHOOSE j \in 1..Len(s) :
                    /\ CharAt(s, j) = sep
                    /\ \A h \in 1..(j - 1) : CharAt(s, h) # sep
         IN <<SubSeq(s, 1, k - 1)>> \o Split(SubSeq(s, k + 1, Len(s)), sep)
    ELSE <<s>>

\* input_value.startswith('[') and input_value.endswith(']')
ArrayShaped(s) == s # "" /\ CharAt(s, 1) = "[" /\ CharAt(s, Len(s)) = "]"

\* json.loads / JSON.parse of an array-shaped text whose elements are
\* numbers: the array, or a decode error.
JsonLoads(s) ==
    IF Len(s) < 2 THEN [ok |-> FALSE, value |-> <<>>]
    ELSE LET inner == Strip(SubSeq(s, 2, Len(s) - 1))
             toks == Split(inner, ",")
         IN IF inner = "" THEN [ok |-> TRUE, value |-> <<>>]
            ELSE IF \A k \in 1..Len(toks) : IsNumber(Strip(toks[k]))
            THEN [ok |-> TRUE,
                  value |-> [k \in 1..Len(toks) |-> ParseInt(Strip(toks[k]))]]
            ELSE [ok |-> FALSE, value |-> <<>>]

\* The text of a value: str(result), String(result), result.toString().
\* JavaScript joins an array with "," and no brackets; Java prints the
\* identity of an array object.
LangStr(lang, val) ==
    CASE val.t = "str" -> val.v
      [] val.t = "int" -> ToString(val.v)
      [] OTHER ->
           IF lang = "python"
           THEN "[" \o Join(", ", [k \in 1..Len(val.v) |-> ToString(val.v[k])]) \o "]"
           ELSE IF lang = "javascript"
           THEN Join(",", [k \in 1..Len(val.v) |-> ToString(val.v[k])])
           ELSE "[I@1b6d3586"

\* Callables a solution may define.  params lists the declared parameters:
\* "pos" positional, "default" positional with a default value, "var" *args
\* (rest parameter, varargs array), "kwonly" keyword-only (in JavaScript an
\* options parameter with a default value).
Echo == [name |-> "echo", params |-> <<"pos">>, body |-> "first"]
Add == [name |-> "Add", params |-> <<"pos", "pos">>, body |-> "sum"]
Count == [name |-> "count", params |-> <<"var">>, body |-> "count"]
Boom == [name |-> "boom", params |-> <<"pos", "default">>, body |-> "raise"]
Pick == [name |-> "pick", params |-> <<"pos", "kwonly">>, body |-> "first"]

Quit == [name |-> "quit", params |-> <<"pos">>, body |-> "exit"]

Callables == {Echo, Add, Count, Boom, Pick, Quit}

\* solution_functions in enumeration order: up to MaxFuncs different callables.
RECURSIVE FuncLists(_)
FuncLists(n) ==
    IF n = 0 THEN {<<>>}
    ELSE FuncLists(n - 1) \cup
         { Append(fs, f) : fs \in { g \in FuncLists(n - 1) : Len(g) = n - 1 },
                           f \in Callables }

DistinctNames(fs) == \A a, b \in 1..Len(fs) : a # b => fs[a].name # fs[b].name

SolutionFunctions == { fs \in FuncLists(MaxFuncs) : DistinctNames(fs) }

\* Test cases as the harness reads them from test_cases.json.
HarnessCases ==
    { [function_name |-> "Add", description |-> "",
       input |-> "[1, 2]", expected_output |-> "3"],
      [function_name |-> "", description |-> "ECHO the text",
       input |-> "hello", expected_output |-> " hello "],
      [function_name |-> "missing", description |-> "count or add",
       input |-> "[1, 2,]", expected_output |-> "1"],
      [function_name |-> "echo", description |-> "uses add",
       input |-> "[1, 2]", expected_output |-> "[1, 2]"] }

RECURSIVE CaseLists(_)
CaseLists(n) ==
    IF n = 0 THEN {<<>>}
    ELSE CaseLists(n - 1) \cup
         { Append(tcs, tc) : tcs \in { l \in CaseLists(n - 1) : Len(l) = n - 1 },
                             tc \in HarnessCases }

\* Harnesses whose loop decides what to call.  run_tests.rb calls nothing;
\* main.go does not compile and the C++ runner is never built.
ResolvingHarnesses == {"python", "javascript", "java"}

HarnessLanguages == ResolvingHarnesses \cup {"ruby"}

FirstIndex(fs, Test(_)) ==
    CHOOSE k \in 1..Len(fs) : Test(k) /\ \A h \in 1..(k - 1) : ~Test(h)

NameMatches(fs, tc, k) == fs[k].name = tc.function_name

InDescription(fs, tc, k) == Contains(Lower(tc.description), Lower(fs[k].name))

\* "Find the function to test", with the first-candidate default tried before
\* the description match.
ResolveDefaultFirst(tc, fs) ==
    IF tc.function_name # "" /\ \E k \in 1..Len(fs) : NameMatches(fs, tc, k)
    THEN [rule |-> "a", idx |-> FirstIndex(fs, LAMBDA k : NameMatches(fs, tc, k))]
    ELSE IF Len(fs) = 1
    THEN [rule |-> "b", idx |-> 1]
    ELSE IF fs # <<>>
    THEN [rule |-> "d", idx |-> 1]
    ELSE [rule |-> "none", idx |-> 0]

\* "Find the function to test": the if / elif / for-else chain of the python,
\* javascript and java harnesses.
ResolveCallable(tc, fs) ==
    IF tc.function_name # "" /\ \E k \in 1..Len(fs) : NameMatches(fs, tc, k)
    THEN [rule |-> "a", idx |-> FirstIndex(fs, LAMBDA k : NameMatches(fs, tc, k))]
    ELSE IF Len(fs) = 1
    THEN [rule |-> "b", idx |-> 1]
    ELSE IF \E k \in 1..Len(fs) : InDescription(fs, tc, k)
    THEN [rule |-> "c", idx |-> FirstIndex(fs, LAMBDA k : InDescription(fs, tc, k))]
    ELSE IF fs # <<>>
    THEN [rule |-> "d", idx |-> 1]
    ELSE [rule |-> "none", idx |-> 0]

\* What each harness does about the callable of one test case.
Resolve(lang, tc, fs) ==
    IF lang \in ResolvingHarnesses
    THEN ResolveCallable(tc, fs)
    ELSE [rule |-> "stub", idx |-> 0]

\* The java harness says "method".
NoMethodRecord(i, tc) ==
    [ test_case_id    |-> TestId(i),
      passed          |-> FALSE,
      actual_output   |-> "",
      expected_output |-> tc.expected_output,
      execution_time  |-> 0,
      error_message   |-> "No suitable method found" ]

\* The record of a test case for which nothing is invoked.
UnresolvedRecord(lang, i, tc) ==
    CASE lang = "ruby" -> RubyRecord(i, tc)
      [] lang = "java" -> NoMethodRecord(i, tc)
      [] OTHER -> NoFunctionRecord(i, tc)

\* "Parse input based on type": an array-shaped input that parses becomes
\* the array; anything else stays the raw string.
ParsedInput(raw) ==
    IF ArrayShaped(raw) /\ JsonLoads(raw).ok
    THEN ListV(JsonLoads(raw).value)
    ELSE StrV(raw)

CountOf(f, kind) == Cardinality({k \in 1..Len(f.params) : f.params[k] = kind})

HasVar(f) == CountOf(f, "var") > 0

\* func.length of JavaScript: the parameters before the first one that has a
\* default value or is a rest parameter.
FuncLength(f) ==
    Cardinality({k \in 1..Len(f.params) : \A h \in 1..k : f.params[h] = "pos"})

\* The test the harness makes before it passes an array: python
\* `len(sig.parameters) == 1 and not any(VAR_POSITIONAL)`, javascript
\* `func.length === 1`.
SingleArgument(lang, f) ==
    IF lang = "python"
    THEN Len(f.params) = 1 /\ ~HasVar(f)
    ELSE FuncLength(f) = 1

\* The java harness passes one argument: the typed array when the input is
\* array-shaped, the method has one parameter of an array type and the input
\* parses; the input text otherwise.
JavaArguments(f, raw) ==
    IF ArrayShaped(raw) /\ f.params = <<"var">> /\ JsonLoads(raw).ok
    THEN <<ListV(JsonLoads(raw).value)>>
    ELSE <<StrV(raw)>>

\* The arguments the callable is invoked with.
Arguments(lang, f, raw) ==
    IF lang = "java" THEN JavaArguments(f, raw)
    ELSE LET p == ParsedInput(raw) IN
         IF p.t = "list"
         THEN IF SingleArgument(lang, f)
              THEN <<p>>
              ELSE [k \in 1..Len(p.v) |-> IntV(p.v[k])]
         ELSE <<p>>

\* Whether the call binds: python checks the number of positional arguments,
\* javascript accepts any, Method.invoke wants one argument per parameter
\* and of its type.
ArityOK(lang, f, args) ==
    CASE lang = "python" ->
            /\ Len(args) >= CountOf(f, "pos")
            /\ HasVar(f) \/ Len(args) <= CountOf(f, "pos") + CountOf(f, "default")
      [] lang = "javascript" -> TRUE
      [] OTHER ->
            /\ Len(args) = Len(f.params)
            /\ args[1].t = (IF f.params[1] = "var" THEN "list" ELSE "str")

BodyResult(lang, f, args) ==
    CASE f.body = "first" -> IF args = <<>> THEN StrV("undefined") ELSE args[1]
      [] f.body = "count" ->
            IF lang = "java" THEN IntV(Len(args[1].v)) ELSE IntV(Len(args))
      [] OTHER ->
            IF Len(args) >= 2 /\ args[1].t = "int" /\ args[2].t = "int"
            THEN IntV(args[1].v + args[2].v)
            ELSE IF args # <<>> /\ args[1].t = "str"
            THEN StrV(args[1].v \o "undefined")
            ELSE StrV("NaN")

\* func(...) inside the try of one test case: the text of what it returns,
\* or an exception that `except Exception` (catch) handles, or the end of
\* the process (sys.exit raises SystemExit, which is no Exception;
\* process.exit; System.exit).
Invocation(lang, f, args) ==
    IF ~ArityOK(lang, f, args) \/ f.body = "raise"
    THEN [kind |-> "raises", value |-> ""]
    ELSE IF f.body = "exit"
    THEN [kind |-> "exits", value |-> ""]
    ELSE [kind |-> "returns", value |-> LangStr(lang, BodyResult(lang, f, args))]

\* A loop that ends after the test case at hand.
AbortLoop(tcs, i) == "dump"

\* Where the loop goes after the i-th test case.
LoopPc(tcs, i) == IF i > Len(tcs) THEN "dump" ELSE "resolve"

\* Batches of up to MaxTests test cases, no case twice (one iteration of the
\* loop does not depend on the iterations before it).
HarnessBatches ==
    { tcs \in CaseLists(MaxTests) :
        \A h, k \in 1..Len(tcs) : h # k => tcs[h] # tcs[k] }

\* The harness after its prologue: test cases loaded, callables enumerated.
HarnessStarts ==
    { [pc |-> LoopPc(tcs, 1), lang |-> lang, funcs |-> fs, tcs |-> tcs, i |-> 1,
       rule |-> "", func |-> 0, args |-> <<>>, results |-> <<>>] :
        lang \in HarnessLanguages, fs \in SolutionFunctions, tcs \in HarnessBatches }

HarnessInit ==
    /\ ServiceIdle
    /\ docker_available
    /\ harness \in HarnessStarts
    /\ requests = NoRequests
    /\ worker = NoWorker
    /\ grading = NoGrading

\* Top of one loop iteration: the callable is looked up; when there is none
\* the failed record is appended and the loop continues.
HarnessResolve ==
    /\ harness.pc = "resolve"
    /\ LET tc == harness.tcs[harness.i]
           r == Resolve(harness.lang, tc, harness.funcs)
       IN IF r.idx = 0
          THEN harness' = [harness EXCEPT
                   !.rule = r.rule, !.func = 0, !.args = <<>>,
                   !.results = Append(@, UnresolvedRecord(harness.lang, harness.i, tc)),
                   !.i = @ + 1,
                   !.pc = LoopPc(harness.tcs, harness.i + 1)]
          ELSE harness' = [harness EXCEPT
                   !.rule = r.rule, !.func = r.idx, !.pc = "invoke"]
    /\ UNCHANGED <<beyond, docker_available, pc, calls, language, test_cases, timeout,
                   temp_dir, dirs, files, results_file, containers, launched,
                   elapsed, result, raised, path, exit_ran, todo, last, warnings,
                   perm_seen, captured>>

\* One loop iteration with no except clause: an exception of the call ends
\* the harness, and nothing is recorded for the test case.
HarnessInvokeUncaught ==
    /\ harness.pc = "invoke"
    /\ LET tc == harness.tcs[harness.i]
           f == harness.funcs[harness.func]
           args == Arguments(harness.lang, f, tc.input)
           oc == Invocation(harness.lang, f, args)
       IN IF oc.kind \in {"raises", "exits"}
          THEN harness' = [harness EXCEPT !.args = args, !.pc = "exited"]
          ELSE harness' = [harness EXCEPT
                   !.args = args,
                   !.results = Append(@, PythonRecord(harness.i, tc, oc)),
                   !.i = @ + 1,
                   !.pc = LoopPc(harness.tcs, harness.i + 1)]
    /\ UNCHANGED <<beyond, docker_available, pc, calls, language, test_cases, timeout,
                   temp_dir, dirs, files, results_file, containers, launched,
                   elapsed, result, raised, path, exit_ran, todo, last, warnings,
                   perm_seen, captured>>

\* The try block of one loop iteration: input adaptation, the call, the
\* comparison, and the record of either branch.  A call that ends the
\* process leaves no record and no results.json.
HarnessInvoke ==
    /\ harness.pc = "invoke"
    /\ LET tc == harness.tcs[harness.i]
           f == harness.funcs[harness.func]
           args == Arguments(harness.lang, f, tc.input)
           oc == Invocation(harness.lang, f, args)
       IN IF oc.kind = "exits"
          THEN harness' = [harness EXCEPT !.args = args, !.pc = "exited"]
          ELSE harness' = [harness EXCEPT
                   !.args = args,
                   !.results = Append(@, PythonRecord(harness.i, tc, oc)),
                   !.i = @ + 1,
                   !.pc = LoopPc(harness.tcs, harness.i + 1)]
    /\ UNCHANGED <<beyond, docker_available, pc, calls, language, test_cases, timeout,
                   temp_dir, dirs, files, results_file, containers, launched,
                   elapsed, result, raised, path, exit_ran, todo, last, warnings,
                   perm_seen, captured>>

\* After the loop: json.dump(results, f) into results.json.
HarnessDump ==
    /\ harness.pc = "dump"
    /\ harness' = [harness EXCEPT !.pc = "done"]
    /\ results_file' = JsonFile(harness.results)
    /\ files' = files \cup {"results.json"}
    /\ UNCHANGED <<beyond, docker_available, pc, calls, language, test_cases, timeout,
                   temp_dir, dirs, containers, launched, elapsed, result, raised,
                   path, exit_ran, todo, last, warnings, perm_seen, captured>>

HarnessNext == HarnessResolve \/ HarnessInvoke \/ HarnessDump

HarnessSpec == HarnessInit /\ [][HarnessNext]_vars

(***************************************************************************)
(* The caller of execute_code: CorrectnessAnalyzer                         *)
(* (src/server/services/analyzers/correctness_analyzer.py).                *)
(***************************************************************************)
\* dict.get(key, default).
Get(data, key, default) == IF key \in DOMAIN data THEN data[key] ELSE default

\* A conversion that takes the dict as it is.
FromDictAsIs(data) == data

\* TestCaseResult.from_dict followed by model_dump: every attribute is read
\* with dict.get, memory_usage and error_message defaulting to None.
FromDict(data) ==
    [ test_case_id    |-> Get(data, "test_case_id", ""),
      passed          |-> Get(data, "passed", FALSE),
      actual_output   |-> Get(data, "actual_output", ""),
      expected_output |-> Get(data, "expected_output", ""),
      execution_time  |-> Get(data, "execution_time", 0),
      memory_usage    |-> Get(data, "memory_usage", None),
      error_message   |-> Get(data, "error_message", None) ]

\* Scores are quotients of two numbers: [num, den] stands for num / den.
Quotient(num, den) == [num |-> num, den |-> den]

Zero == Quotient(0, 1)

One == Quotient(1, 1)

\* The weights a test case may carry; NoWeight is a test case without the key.
NoWeight == [given |-> FALSE, value |-> 0]

Weights == {NoWeight} \cup {[given |-> TRUE, value |-> x] : x \in {0, 2}}

Weighted(tc, w) ==
    IF ~w.given THEN tc
    ELSE [input |-> tc.input, expected_output |-> tc.expected_output,
          weight |-> w.value]

WeightedLists ==
    UNION { { [i \in 1..n |-> Weighted(TestCaseAt(i), ws[i])] : ws \in [1..n -> Weights] } :
            n \in 0..MaxTests }

\* What execute_code can give back for the test cases tcs (see C3): one
\* record per test case with the verdicts of the run, or a single synthetic
\* failure record.
ExecuteCodeResults(tcs) ==
    { [i \in 1..Len(tcs) |->
          IF vs[i] THEN DummyRecord(i, tcs[i]) ELSE RubyRecord(i, tcs[i])] :
        vs \in [1..Len(tcs) -> BOOLEAN] }
      \cup {<<DockerUnavailableRecord>>, <<TimeoutRecord(DEFAULT_TIMEOUT + 5)>>}

\* sum(...) of a list of numbers.
RECURSIVE Sum(_)
Sum(seq) == IF seq = <<>> THEN 0 ELSE seq[1] + Sum(Tail(seq))

\* zip(test_cases, test_results): pairs up to the shorter of the two.
Zip(xs, ys) ==
    [i \in 1..(IF Len(xs) < Len(ys) THEN Len(xs) ELSE Len(ys)) |-> <<xs[i], ys[i]>>]

WeightOf(tc) == Get(tc, "weight", 1)

\* A score that counts the passed results and ignores the weights.
UnweightedScore(tcs, results) ==
    IF Len(tcs) > 0
    THEN Quotient(Len(SelectSeq(results, LAMBDA r : r.passed)), Len(tcs))
    ELSE Zero

\* Lines 153-158: total_weight, weighted_score and their quotient.
WeightedScore(tcs, results) ==
    LET total_weight == Sum([i \in 1..Len(tcs) |-> WeightOf(tcs[i])])
        passing == SelectSeq(Zip(tcs, results), LAMBDA p : p[2].passed)
        weighted_score == Sum([i \in 1..Len(passing) |-> WeightOf(passing[i][1])])
    IN IF total_weight > 0 THEN Quotient(weighted_score, total_weight) ELSE Zero

\* CorrectnessAnalyzer.analyze called with code (anything, or the empty
\* string) and test cases.
CorrectnessJobs ==
    { [pc |-> "start", job |-> "correctness", has_code |-> c, tcs |-> tcs,
       results |-> <<>>, score |-> Zero] :
        c \in BOOLEAN, tcs \in WeightedLists }

(***************************************************************************)
(* AnalysisService._analyze_mcq_answers                                    *)
(* (src/server/services/analysis_service.py).                              *)
(***************************************************************************)
MaxAnswers == 1

Options == {"A", "B"}

\* What submitted_value and correct_answer may hold: one option (a string),
\* None, or a list of up to two options (repetitions included).
OneOption(o) == [t |-> "str", v |-> <<o>>]

NoneV == [t |-> "none", v |-> <<>>]

OptionList(xs) == [t |-> "list", v |-> xs]

Selections ==
    {OneOption(o) : o \in Options} \cup {NoneV}
        \cup {OptionList(xs) : xs \in UNION {[1..n -> Options] : n \in 0..2}}

\* str(value).
PyStr(val) ==
    CASE val.t = "str" -> val.v[1]
      [] val.t = "none" -> "None"
      [] OTHER -> "[" \o Join(", ", [k \in 1..Len(val.v) |-> "'" \o val.v[k] \o "'"]) \o "]"

\* set(list).
SetOf(xs) == {xs[k] : k \in 1..Len(xs)}

McqAnswers ==
    { [answer_type |-> ty, question_id |-> "q", submitted_value |-> s,
       correct_answer |-> c] :
        ty \in {"MCQ", "CODING"}, s \in Selections, c \in Selections }

\* Lines 137-162: the verdict and the score of one MCQ answer.
McqResult(answer) ==
    LET s == answer.submitted_value
        c == answer.correct_answer
    IN IF s.t = "list" /\ c.t = "list"
       THEN IF SetOf(s.v) = SetOf(c.v)
            THEN [question_id |-> answer.question_id, correctness_score |-> One,
                  is_correct |-> TRUE]
            ELSE [question_id |-> answer.question_id,
                  correctness_score |->
                      IF Cardinality(SetOf(c.v)) > 0
                      THEN Quotient(Cardinality(SetOf(s.v) \cap SetOf(c.v)),
                                    Cardinality(SetOf(c.v)))
                      ELSE Zero,
                  is_correct |-> FALSE]
       ELSE IF PyStr(s) = PyStr(c)
            THEN [question_id |-> answer.question_id, correctness_score |-> One,
                  is_correct |-> TRUE]
            ELSE [question_id |-> answer.question_id, correctness_score |-> Zero,
                  is_correct |-> FALSE]

\* _analyze_mcq_answers: the answers that are not MCQ are passed over.
AnalyzeMcqAnswers(answers) ==
    LET mcq == SelectSeq(answers, LAMBDA a : a.answer_type = "MCQ")
    IN [k \in 1..Len(mcq) |-> McqResult(mcq[k])]

McqJobs ==
    { [pc |-> "start", job |-> "mcq", answers |-> as, results |-> <<>>] :
        as \in UNION {[1..n -> McqAnswers] : n \in 0..MaxAnswers} }

(***************************************************************************)
(* The two analyses at work.                                               *)
(***************************************************************************)
GradingInit ==
    /\ ServiceIdle
    /\ docker_available
    /\ harness = NoHarness
    /\ requests = NoRequests
    /\ worker = NoWorker
    /\ grading \in CorrectnessJobs \cup McqJobs

GradingFrame ==
    UNCHANGED <<docker_available, pc, calls, language, test_cases, timeout,
                temp_dir, dirs, files, results_file, containers, launched,
                elapsed, result, raised, path, exit_ran, todo, last,
                warnings, perm_seen, captured, harness, requests, worker>>

\* CorrectnessAnalyzer.analyze: the early return without code or test cases,
\* else execute_code, from_dict on every record and the score.
AnalyzeCorrectness ==
    /\ grading.pc = "start"
    /\ grading.job = "correctness"
    /\ IF ~grading.has_code \/ grading.tcs = <<>>
       THEN grading' = [grading EXCEPT !.pc = "done", !.score = Zero]
       ELSE \E res \in ExecuteCodeResults(grading.tcs) :
               LET test_results == [k \in 1..Len(res) |-> FromDict(res[k])]
               IN grading' = [grading EXCEPT
                      !.pc = "done",
                      !.results = test_results,
                      !.score = WeightedScore(grading.tcs, test_results)]
    /\ GradingFrame

AnalyzeMcq ==
    /\ grading.pc = "start"
    /\ grading.job = "mcq"
    /\ grading' = [grading EXCEPT
           !.pc = "done", !.results = AnalyzeMcqAnswers(grading.answers)]
    /\ GradingFrame

GradingNext == AnalyzeCorrectness \/ AnalyzeMcq

GradingSpec == GradingInit /\ [][GradingNext]_vars

(***************************************************************************)
(* execute_code called by several threads at once (the service is shared by *)
(* the job threads of the background worker): each call allocates its      *)
(* workspace, names its container after it, runs and cleans up.            *)
(***************************************************************************)
MaxThreads == 2

Threads == 1..MaxThreads

\* Names tempfile.mkdtemp can make up.
Tokens == 1..MaxThreads

\* A directory maker that does not look at what exists.
MkdtempAnyName(existing) == Tokens

\* tempfile.mkdtemp(prefix="code_execution_"): a name under which nothing
\* exists at the moment of the call (os.mkdir fails on an existing name and
\* another name is tried).
Mkdtemp(existing) == Tokens \ existing

\* container_name = f"code_execution_{os.path.basename(temp_dir)}".
ContainerName(dir) == "code_execution_" \o ToString(dir)

\* The request every thread submits: python code and the first MaxTests
\* test cases.  The code is known by what it does whenever its harness runs:
\* every call returns the expected value, every call raises, the solution
\* overwrites results.json with text that is not JSON, it ends the
\* interpreter with status 0 before the harness writes, or it never ends.
SubmittedTests == [i \in 1..MaxTests |-> TestCaseAt(i)]

SubmittedCodes == {"passes", "raises", "garbles", "quits", "spins"}

ExpectedValue(tc) == [kind |-> "returns", value |-> tc.expected_output]

Raising(tc) == [kind |-> "raises", value |-> ""]

\* results.json after the harness of `code` ran to its end.
HarnessFile(code) ==
    CASE code = "passes" ->
            JsonFile(PythonHarness(SubmittedTests, TRUE,
                [i \in 1..MaxTests |-> ExpectedValue(SubmittedTests[i])]))
      [] code = "raises" ->
            JsonFile(PythonHarness(SubmittedTests, TRUE,
                [i \in 1..MaxTests |-> Raising(SubmittedTests[i])]))
      [] code = "garbles" -> Garbage
      [] OTHER -> Absent

ThreadIdle == [pc |-> "idle", dir |-> NoDir, res |-> NoResult]

\* given: the names mkdtemp has handed out so far; seen: the lists of passed
\* verdicts the calls have returned so far.
ConcurrentInit ==
    /\ ServiceIdle
    /\ docker_available
    /\ harness = NoHarness
    /\ \E code \in SubmittedCodes :
          requests = [code |-> code, given |-> {}, seen |-> {},
                      th |-> [t \in Threads |-> ThreadIdle]]
    /\ worker = NoWorker
    /\ grading = NoGrading

ConcurrentFrame ==
    UNCHANGED <<docker_available, pc, calls, language, test_cases, timeout,
                temp_dir, files, results_file, launched, elapsed, result,
                raised, path, exit_ran, todo, last, warnings, perm_seen,
                captured, harness, worker, grading>>

\* `with self._safe_temp_dir() as temp_dir` of the call of thread t.
ThreadAllocate(t) ==
    /\ requests.th[t].pc = "idle"
    /\ \E nm \in Mkdtemp(dirs) :
        /\ dirs' = dirs \cup {nm}
        /\ requests' = [requests EXCEPT
               !.th[t] = [pc |-> "created", dir |-> nm, res |-> NoResult],
               !.given = @ \cup {nm}]
    /\ UNCHANGED containers
    /\ ConcurrentFrame

\* docker run --name container_name: docker refuses a name that a container
\* already has (CalledProcessError).
ThreadLaunch(t) ==
    /\ requests.th[t].pc = "created"
    /\ IF ContainerName(requests.th[t].dir) \in containers
       THEN /\ requests' = [requests EXCEPT
                   !.th[t].pc = "launch_failed",
                   !.th[t].res = OuterExcept(InnerExcept(
                       RunInDockerExcept("CalledProcessError", timeout),
                       "launch_error")).result]
            /\ UNCHANGED containers
       ELSE /\ requests' = [requests EXCEPT !.th[t].pc = "running"]
            /\ containers' = containers \cup {ContainerName(requests.th[t].dir)}
    /\ UNCHANGED dirs
    /\ ConcurrentFrame

\* The container command ends within the limit (--rm removes the container)
\* and results.json is read.
ThreadFinish(t) ==
    /\ requests.th[t].pc = "running"
    /\ requests.code # "spins"
    /\ requests' = [requests EXCEPT
           !.th[t].pc = "completed",
           !.th[t].res = OuterExcept(InnerExcept(
               ReadResultsFile(HarnessFile(requests.code)), "unparseable")).result]
    /\ containers' = containers \ {ContainerName(requests.th[t].dir)}
    /\ UNCHANGED dirs
    /\ ConcurrentFrame

\* subprocess.run raises TimeoutExpired (the code never ends, or the machine
\* is slow): the docker client is killed, the container is not stopped.
ThreadTimeout(t) ==
    /\ requests.th[t].pc = "running"
    /\ requests' = [requests EXCEPT
           !.th[t].pc = "timed_out",
           !.th[t].res = OuterExcept(InnerExcept(
               RunInDockerExcept("TimeoutExpired", timeout), "runtime_error")).result]
    /\ containers' = AfterTimeout(containers, ContainerName(requests.th[t].dir))
    /\ UNCHANGED dirs
    /\ ConcurrentFrame

\* SafeTempDir.__exit__: the directory is removed, or stays when its removal
\* fails; the call returns its list.
ThreadCleanup(t) ==
    /\ requests.th[t].pc \in {"completed", "timed_out", "launch_failed"}
    /\ requests' = [requests EXCEPT
           !.th[t] = ThreadIdle,
           !.seen = @ \cup {[k \in 1..Len(requests.th[t].res) |->
                                requests.th[t].res[k].passed]}]
    /\ \/ dirs' = dirs \ {requests.th[t].dir}
       \/ UNCHANGED dirs
    /\ UNCHANGED containers
    /\ ConcurrentFrame

\* A container left behind by a timeout ends by itself.
StrayContainerExit ==
    /\ requests.code # "spins"
    /\ \E c \in containers :
        /\ \A t \in Threads :
              requests.th[t].pc = "running" =>
                  ContainerName(requests.th[t].dir) # c
        /\ containers' = containers \ {c}
    /\ UNCHANGED <<dirs, requests>>
    /\ ConcurrentFrame

ConcurrentNext ==
    \/ \E t \in Threads :
          \/ ThreadAllocate(t)
          \/ ThreadLaunch(t)
          \/ ThreadFinish(t)
          \/ ThreadTimeout(t)
          \/ ThreadCleanup(t)
    \/ StrayContainerExit

ConcurrentSpec == ConcurrentInit /\ [][ConcurrentNext]_vars

(***************************************************************************)
(* Properties.                                                             *)
(***************************************************************************)
RecordFields ==
    {"test_case_id", "passed", "actual_output", "expected_output",
     "execution_time", "error_message"}

IsResultRecord(r) == RecordFields \subseteq DOMAIN r /\ r.passed \in BOOLEAN

IsResultList(res) == \A i \in 1..Len(res) : IsResultRecord(res[i])

InCall == pc \notin {"idle", "returned"}

CallStep ==
    \/ Allocate \/ WriteArtifacts \/ RunDummy \/ Launch \/ Tick \/ HarnessExitZero
    \/ HarnessExitNonZero \/ TimeoutExpired \/ ReadResults \/ RemovePath

IsSyntheticFailure(res, id) ==
    /\ Len(res) = 1
    /\ res[1].test_case_id = id
    /\ res[1].passed = FALSE

\* C1: execute_code is total: whatever allocation, writing, launch, reading
\* and cleanup do, no exception escapes the call, a call in progress always
\* has a next step, and what it returns is a list of result records.
C1_ExecuteCodeTotal ==
    /\ ~raised
    /\ InCall => ENABLED CallStep
    /\ pc = "returned" => path # "none" /\ IsResultList(result)

\* C1 witness: json.load raised inside the call and the call returned a record.
C1_Witness ==
    /\ pc = "returned"
    /\ path = "unparseable"
    /\ results_file = Garbage
    /\ ~raised
    /\ IsSyntheticFailure(result, "error")

\* C2 as stated: the returned list is never empty.
C2_NeverEmptyOriginal == pc = "returned" => Len(result) >= 1

\* C2 amended: the returned list is empty exactly when test_cases is empty
\* and the call took a success path (harness ran to completion, or the
\* javascript/java branch); with at least one test case, and on every
\* whole-batch failure path, it is non-empty.
C2_EmptyOnlyForNoTests ==
    pc = "returned" =>
        (Len(result) = 0 <=> (test_cases = <<>> /\ path \in {"completed", "dummy"}))

C2_Witness ==
    /\ pc = "returned"
    /\ path = "completed"
    /\ Len(test_cases) = 1
    /\ Len(result) >= 1

\* C3: the returned list has one record per test case on the success paths
\* and exactly one record on every other path.
C3_ResultLength ==
    pc = "returned" =>
        /\ path \in {"completed", "dummy", "docker_unavailable", "unsupported",
                     "mkdtemp_failed", "write_failed", "launch_error",
                     "runtime_error", "timeout", "missing", "unparseable",
                     "dummy_error"}
        /\ IF path \in {"completed", "dummy"}
           THEN Len(result) = Len(test_cases)
           ELSE Len(result) = 1

C3_Witness ==
    /\ pc = "returned"
    /\ path = "completed"
    /\ Len(test_cases) = MaxTests
    /\ Len(result) = MaxTests
    /\ result[1].error_message = "No suitable function found"

NamesSupportedLanguages(msg) == \A l \in SupportedLanguages : Contains(msg, l)

Unsupported == language \notin SupportedLanguages

\* C4 as stated: an unsupported language gives one "error" record whose message
\* names the supported languages, whatever docker_available is; no workspace
\* is allocated and no docker process is started.
C4_UnsupportedOriginal ==
    (pc = "returned" /\ Unsupported) =>
        /\ IsSyntheticFailure(result, "error")
        /\ NamesSupportedLanguages(result[1].error_message)
        /\ temp_dir = NoDir
        /\ ~launched

\* C4 amended: the message names the supported languages when docker is
\* available; when it is not, the record is the docker-unavailable record.
C4_UnsupportedAmended ==
    (pc = "returned" /\ Unsupported) =>
        /\ IsSyntheticFailure(result, "error")
        /\ docker_available => NamesSupportedLanguages(result[1].error_message)
        /\ ~docker_available => result[1].error_message = DockerUnavailableMessage
        /\ temp_dir = NoDir
        /\ ~launched
        /\ ~exit_ran

C4_Witness ==
    /\ pc = "returned"
    /\ language = "cobol"
    /\ docker_available
    /\ path = "unsupported"
    /\ Contains(result[1].error_message, "javascript")

\* C5: with docker unavailable, python is run by the fallback executor (one
\* real record per test case, test_0, test_1, ...); every other supported
\* language gets the single "not available" record.
C5_FallbackForPython ==
    (pc = "returned" /\ ~docker_available /\ ~Unsupported /\ test_cases # <<>>) =>
        IF language = "python"
        THEN /\ Len(result) = Len(test_cases)
             /\ \A i \in 1..Len(result) : result[i].test_case_id = TestId(i)
        ELSE /\ IsSyntheticFailure(result, "error")
             /\ Contains(result[1].error_message, "not available")

TimedOut == pc = "returned" /\ path = "timeout"

\* C6 as stated: the timeout record carries execution_time = T * 1000.
C6_TimeoutRecordOriginal ==
    TimedOut =>
        /\ IsSyntheticFailure(result, "timeout")
        /\ result[1].execution_time = timeout * MsPerSecond

\* C6 amended: the timeout record carries execution_time = max(T, 10) * 1000.
C6_TimeoutRecordAmended ==
    TimedOut =>
        /\ IsSyntheticFailure(result, "timeout")
        /\ result[1].execution_time =
              (IF timeout < TimeoutFloor THEN TimeoutFloor ELSE timeout) * MsPerSecond

C6_Witness ==
    /\ TimedOut
    /\ timeout < TimeoutFloor
    /\ result[1].execution_time = TimeoutFloor * MsPerSecond

\* C7: once execute_code has returned a timeout result, the container that
\* the request started is not running any more.
C7_NoContainerAfterTimeout == TimedOut => temp_dir \notin containers

Allocated == temp_dir # NoDir

\* C8 as stated: a call that allocated a workspace ran the cleanup, and when
\* no removal met a permission error the directory is gone at return.
C8_WorkspaceDeletedOriginal ==
    (pc = "returned" /\ Allocated) =>
        /\ exit_ran
        /\ ~perm_seen => temp_dir \notin dirs

\* C8 amended: a call that allocated a workspace ran the cleanup down to the
\* rmdir of the directory, and when no removal step failed for good (every
\* path was removed, at once or by the retry) the directory is gone at return.
C8_WorkspaceDeletedAmended ==
    (pc = "returned" /\ Allocated) =>
        /\ exit_ran
        /\ last.path = TopDir
        /\ warnings = 0 => (temp_dir \notin dirs /\ files = {})

C8_Witness ==
    /\ pc = "returned"
    /\ Allocated
    /\ path = "timeout"
    /\ perm_seen
    /\ warnings = 0
    /\ temp_dir \notin dirs

RemovalMade == pc = "cleanup" /\ todo' # todo

\* C9 as stated: a removal that fails with a permission error is followed by
\* a chmod that makes the path writable and by exactly one retry.
C9_RetryOnceOriginal ==
    [][ (RemovalMade /\ last'.err = "PermissionError")
            => (last'.chmod = "ok" /\ last'.calls = 2) ]_vars

\* C9 amended: after a permission error os.chmod is tried; the removal is
\* retried once when chmod succeeded and not at all when chmod failed; a path
\* that stays is logged; rmtree goes on with the next path; the computed
\* result is not touched and nothing is raised.
C9_CleanupTolerant ==
    [][ RemovalMade =>
          /\ last'.path = Head(todo)
          /\ last'.err = "PermissionError" =>
                \/ last'.chmod = "ok" /\ last'.calls = 2
                \/ last'.chmod = "failed" /\ last'.calls = 1 /\ ~last'.removed
          /\ last'.err # "PermissionError" => last'.calls = 1 /\ last'.chmod = "none"
          /\ ~last'.removed => (last'.logged /\ warnings' = warnings + 1)
          /\ todo' = Tail(todo)
          /\ result' = result
          /\ path' = path
          /\ ~raised' ]_vars

C9_Witness ==
    /\ pc = "returned"
    /\ path = "completed"
    /\ Len(result) = MaxTests
    /\ ~raised
    /\ warnings >= 2
    /\ last.err = "PermissionError"
    /\ last.chmod = "ok"
    /\ last.calls = 2
    /\ ~last.removed
    /\ last.logged

ReadPaths == {"completed", "missing", "unparseable"}

\* C10: when the container command ended normally, the call returns what
\* results.json holds, in the file's order; when the file is missing or is
\* not JSON it returns one "error" record with passed = false.
C10_ResultsFileReturned ==
    (pc = "returned" /\ path \in ReadPaths) =>
        IF results_file \notin {Absent, Garbage}
        THEN /\ path = "completed"
             /\ result = results_file.value
             /\ \A i \in 1..Len(result) : result[i].test_case_id = TestId(i)
        ELSE /\ path # "completed"
             /\ IsSyntheticFailure(result, "error")

C10_Witness ==
    /\ pc = "returned"
    /\ path = "completed"
    /\ Len(result) = MaxTests
    /\ result[1].test_case_id = "test_0"
    /\ result[1].passed
    /\ result[MaxTests].test_case_id = TestId(MaxTests)
    /\ ~result[MaxTests].passed

SandboxFailed == pc = "returned" /\ path \in {"launch_error", "runtime_error"}

\* C11: after a launch, build or runtime error of the sandbox the call returns
\* exactly one "error" record with passed = false whose error_message contains
\* the diagnostic text of the failure: what the failed process wrote, or the
\* text of the exception when no process ran.
C11_ErrorCarriesDiagnostic ==
    SandboxFailed =>
        /\ IsSyntheticFailure(result, "error")
        /\ Contains(result[1].error_message,
                    IF captured # "" THEN captured ELSE ExcStr("FileNotFoundError"))

WallClockLimit == IF timeout < TimeoutFloor THEN TimeoutFloor ELSE timeout

\* C12: the wait for the sandbox run is cut off at max(T, 10) seconds: while
\* the run is on, the time waited never exceeds that limit; the timeout is
\* raised only at the limit, never before; and a run that has reached the
\* limit ends in no other way than by the timeout.
C12_LimitIsMaxOfTimeoutAndFloor ==
    [][ /\ pc' = "running" => elapsed' <= WallClockLimit'
        /\ (pc = "running" /\ path' = "timeout") => elapsed = WallClockLimit
        /\ (pc = "running" /\ elapsed >= WallClockLimit /\ pc' # "running")
              => path' = "timeout" ]_vars

C12_Witness ==
    /\ TimedOut
    /\ timeout > TimeoutFloor
    /\ launched
    /\ result[1].execution_time = timeout * MsPerSecond

Resolved == harness.pc = "invoke"

CurrentCase == harness.tcs[harness.i]

NamedBy(tc, k) == tc.function_name # "" /\ harness.funcs[k].name = tc.function_name

DescribedBy(tc, k) ==
    Contains(Lower(tc.description), Lower(harness.funcs[k].name))

Candidates == 1..Len(harness.funcs)

\* C13 as stated: in every harness a test case whose solution offers a
\* callable has one picked for it.
C13_EveryHarnessResolves ==
    (harness.rule # "" /\ harness.pc # "invoke" /\ harness.funcs # <<>>)
        => harness.func # 0

\* C13 amended: in the python, javascript and java harnesses the callable
\* picked is (a) the one named by function_name; else (b) the only one; else
\* (c) the first whose name occurs, case-insensitively, in the description;
\* else (d) the first one; none only when the solution has no callable.  The
\* ruby harness picks nothing.
C13_ResolutionPriority ==
    /\ Resolved =>
        LET tc == CurrentCase
            k == harness.func
        IN /\ harness.lang \in {"python", "javascript", "java"}
           /\ k \in Candidates
           /\ IF \E a \in Candidates : NamedBy(tc, a)
              THEN NamedBy(tc, k) /\ harness.rule = "a"
              ELSE IF Len(harness.funcs) = 1
              THEN k = 1 /\ harness.rule = "b"
              ELSE IF \E c \in Candidates : DescribedBy(tc, c)
              THEN /\ DescribedBy(tc, k)
                   /\ \A h \in 1..(k - 1) : ~DescribedBy(tc, h)
                   /\ harness.rule = "c"
              ELSE k = 1 /\ harness.rule = "d"
    /\ harness.rule = "none" => harness.funcs = <<>>
    /\ harness.rule = "stub" <=> (harness.lang = "ruby" /\ harness.i > 1)

C13_Witness ==
    /\ Resolved
    /\ harness.lang = "java"
    /\ CurrentCase.function_name = "missing"
    /\ harness.funcs = <<Echo, Add>>
    /\ harness.rule = "c"
    /\ harness.func = 2

NothingResolves ==
    /\ harness.pc = "resolve"
    /\ harness.lang \in {"python", "javascript", "java"}
    /\ harness'.func = 0

AppendedRecord == harness'.results[Len(harness'.results)]

FailedRecordAppended(msg) ==
    /\ Len(harness'.results) = Len(harness.results) + 1
    /\ SubSeq(harness'.results, 1, Len(harness.results)) = harness.results
    /\ AppendedRecord.test_case_id = TestId(harness.i)
    /\ AppendedRecord.passed = FALSE
    /\ AppendedRecord.error_message = msg

LoopContinues ==
    /\ harness'.i = harness.i + 1
    /\ harness'.tcs = harness.tcs
    /\ harness'.pc = IF harness.i < Len(harness.tcs) THEN "resolve" ELSE "dump"

\* C14 as stated: whenever no callable resolves for a test case, the record
\* appended says exactly "No suitable function found".
C14_NoFunctionOriginal ==
    [][ NothingResolves => FailedRecordAppended("No suitable function found") ]_vars

\* C14 amended: whenever no callable resolves for a test case, one failed
\* record for that test case is appended, saying "No suitable function found"
\* (python, javascript) or "No suitable method found" (java); the loop goes
\* on with the next test case, and the file written at the end holds one
\* record per test case.
C14_NoFunctionRecord ==
    [][ /\ NothingResolves =>
            /\ FailedRecordAppended(IF harness.lang = "java"
                                    THEN "No suitable method found"
                                    ELSE "No suitable function found")
            /\ LoopContinues
        /\ harness'.pc = "done" =>
            /\ Len(harness'.results) = Len(harness'.tcs)
            /\ results_file' = [kind |-> "json", value |-> harness'.results] ]_vars

C14_Witness ==
    /\ harness.pc = "done"
    /\ harness.lang = "python"
    /\ harness.funcs = <<>>
    /\ Len(harness.results) = MaxTests
    /\ \A k \in 1..MaxTests :
          /\ harness.results[k].error_message = "No suitable function found"
          /\ harness.results[k].test_case_id = TestId(k)

Invoked == harness.funcs[harness.func]

OnePositionalNotVariadic(f) ==
    /\ Cardinality({k \in 1..Len(f.params) : f.params[k] \in {"pos", "default"}}) = 1
    /\ \A k \in 1..Len(f.params) : f.params[k] # "var"

Spread(xs) == [k \in 1..Len(xs) |-> [t |-> "int", v |-> xs[k]]]

\* C15: in the python and javascript harnesses, an input that starts with '['
\* and ends with ']' and parses as JSON is passed whole, as the single
\* argument, to a callable with exactly one positional parameter that is not
\* variadic, and is passed element by element to any other callable; any
\* other input is passed as the raw string.
C15_InputAdaptation ==
    [][ (harness.pc = "invoke" /\ harness.lang \in {"python", "javascript"}) =>
          LET raw == CurrentCase.input
              parsed == JsonLoads(raw)
          IN harness'.args =
                IF ArrayShaped(raw) /\ parsed.ok
                THEN IF OnePositionalNotVariadic(Invoked)
                     THEN <<[t |-> "list", v |-> parsed.value]>>
                     ELSE Spread(parsed.value)
                ELSE <<[t |-> "str", v |-> raw]>> ]_vars

TrimmedEqual(r) == Strip(r.actual_output) = Strip(r.expected_output)

\* C16 as stated: in every returned record, synthetic and failed ones
\* included, passed is true exactly when the trimmed outputs are equal.
C16_PassedIffEqualOriginal ==
    pc = "returned" => \A k \in 1..Len(result) : result[k].passed <=> TrimmedEqual(result[k])

\* C16 amended: in every returned record passed = true implies that the
\* trimmed outputs are equal, and in every record of a comparison that was
\* made (error_message null) passed is true exactly when they are equal;
\* records made without a comparison have passed = false whatever the
\* outputs are.
C16_PassedImpliesEqual ==
    pc = "returned" =>
        \A k \in 1..Len(result) :
            /\ result[k].passed => TrimmedEqual(result[k])
            /\ result[k].error_message = None =>
                  (result[k].passed <=> TrimmedEqual(result[k]))
            /\ result[k].error_message # None => ~result[k].passed

C16_Witness ==
    /\ pc = "returned"
    /\ path = "completed"
    /\ Len(result) = MaxTests
    /\ ~result[1].passed
    /\ result[1].error_message = None
    /\ result[MaxTests].passed
    /\ result[MaxTests].actual_output # result[MaxTests].expected_output

CallOutcome ==
    Invocation(harness.lang, Invoked, Arguments(harness.lang, Invoked, CurrentCase.input))

Invoking == harness.pc = "invoke" /\ harness.lang = "python"

FailedWithMessage(r) == ~r.passed /\ r.error_message \notin {"", None}

CaughtForThisTest ==
    /\ Len(harness'.results) = Len(harness.results) + 1
    /\ SubSeq(harness'.results, 1, Len(harness.results)) = harness.results
    /\ AppendedRecord.test_case_id = TestId(harness.i)
    /\ FailedWithMessage(AppendedRecord)
    /\ LoopContinues

\* C17 as stated: whatever the call made for one test case raises, it is
\* caught for that test case: a failed record with a non-empty error_message
\* is appended and the loop goes on.
C17_AnyExceptionCaught ==
    [][ (Invoking /\ CallOutcome.kind # "returns") => CaughtForThisTest ]_vars

\* C17 amended: in the python harness an exception that derives from
\* Exception is caught for the test case at hand (failed record, non-empty
\* error_message, loop goes on), so a solution whose every call raises such
\* an exception ends with one failed record per test case; SystemExit is not
\* caught: it ends the harness with no record for this or any later test
\* case and without results.json.
C17_ExceptionPerTestCase ==
    [][ /\ (Invoking /\ CallOutcome.kind = "raises") => CaughtForThisTest
        /\ (Invoking /\ CallOutcome.kind = "exits") =>
            /\ harness'.pc = "exited"
            /\ harness'.results = harness.results
            /\ results_file' = Absent
        /\ (harness'.pc = "done" /\ harness'.lang = "python"
                /\ \A k \in 1..Len(harness'.funcs) : harness'.funcs[k].body = "raise") =>
            /\ Len(harness'.results) = Len(harness'.tcs)
            /\ \A k \in 1..Len(harness'.results) :
                  harness'.funcs # <<>> => FailedWithMessage(harness'.results[k]) ]_vars

C17_Witness ==
    /\ harness.pc = "done"
    /\ harness.lang = "python"
    /\ harness.funcs = <<Boom>>
    /\ Len(harness.tcs) = MaxTests
    /\ Len(harness.results) = MaxTests
    /\ \A k \in 1..MaxTests : FailedWithMessage(harness.results[k])
    /\ results_file = [kind |-> "json", value |-> harness.results]

InLoop == harness.pc \in {"resolve", "invoke", "dump", "done"}

RecordOfCase(r, k) ==
    /\ r.test_case_id = "test_" \o ToString(k - 1)
    /\ r.expected_output = harness.tcs[k].expected_output

\* C18: the harness takes the test cases one after another in input order:
\* while it works on the i-th test case (counted from 0) exactly the records
\* of the test cases before it exist, the record at position k (from 0) has
\* test_case_id "test_k" and the expected_output of the k-th test case, and
\* the list written to results.json at the end has one record per test case
\* in input order.
C18_ResultOrderIsInputOrder ==
    InLoop =>
        /\ Len(harness.results) = harness.i - 1
        /\ harness.i <= Len(harness.tcs) + 1
        /\ \A k \in 1..Len(harness.results) : RecordOfCase(harness.results[k], k)
        /\ harness.pc \in {"dump", "done"} => Len(harness.results) = Len(harness.tcs)
        /\ harness.pc = "done" => results_file = JsonFile(harness.results)

C18_Witness ==
    /\ harness.pc = "done"
    /\ Len(harness.tcs) = MaxTests
    /\ harness.tcs[1].expected_output # harness.tcs[MaxTests].expected_output
    /\ results_file.kind = "json"
    /\ Len(results_file.value) = MaxTests
    /\ results_file.value[1].test_case_id = "test_0"
    /\ results_file.value[MaxTests].test_case_id = "test_" \o ToString(MaxTests - 1)
    /\ results_file.value[MaxTests].expected_output = harness.tcs[MaxTests].expected_output
    /\ results_file.value[MaxTests].passed

\* A test case that the solution solves: the function it names is the
\* two-argument sum, its input is an array of two numbers, and the output
\* it expects is their sum (a number prints the same in every language).
SolvesCase(fs, tc) ==
    /\ \E k \in 1..Len(fs) :
          /\ fs[k].name = tc.function_name
          /\ fs[k].params = <<"pos", "pos">>
          /\ fs[k].body = "sum"
    /\ ArrayShaped(tc.input)
    /\ JsonLoads(tc.input).ok
    /\ Len(JsonLoads(tc.input).value) = 2
    /\ Strip(tc.expected_output) =
          ToString(JsonLoads(tc.input).value[1] + JsonLoads(tc.input).value[2])

CorrectSolution ==
    /\ harness.tcs # <<>>
    /\ \A k \in 1..Len(harness.tcs) : SolvesCase(harness.funcs, harness.tcs[k])

AllPassed(res) ==
    \A k \in 1..Len(res) : res[k].passed /\ res[k].error_message = None

\* C19: in every supported language whose harness runs to its end, a
\* solution whose output matches the expected output of every test case
\* gets records that all have passed = true and error_message null.
C19_CorrectSolutionPasses ==
    (harness.pc = "done" /\ HarnessCanComplete(harness.lang) /\ CorrectSolution)
        => /\ Len(harness.results) = Len(harness.tcs)
           /\ AllPassed(harness.results)

\* C20: the flag that construction stored is the whole state of the service
\* object, and no step of any execute_code call changes it: the object is
\* the same before and after every call, whatever the call's outcome.
C20_ServiceStateUnchanged ==
    [][docker_available' = docker_available]_vars

C20_Witness ==
    /\ pc = "idle"
    /\ calls = MaxCalls
    /\ docker_available
    /\ dirs # {}

HoldsWorkspace(t) == requests.th[t].pc # "idle"

\* C21 as stated: any two execute_code calls, concurrent or not, have
\* different workspace directories and different container names: a call is
\* never given a name that an earlier call was given.
C21_AnyTwoCallsDistinct ==
    [][ \A t \in Threads :
          (requests.th[t].pc = "idle" /\ requests'.th[t].pc = "created") =>
              /\ requests'.th[t].dir \notin requests.given
              /\ \A nm \in requests.given :
                    ContainerName(requests'.th[t].dir) # ContainerName(nm) ]_vars

\* C21 amended: two calls whose workspaces exist at the same time have
\* different directories and different container names, so no workspace is
\* in use by two requests at once and two containers started by calls in
\* progress never share a name; every workspace a call holds is on disk.
C21_LiveWorkspacesDistinct ==
    /\ \A t, u \in Threads :
          (t # u /\ HoldsWorkspace(t) /\ HoldsWorkspace(u)) =>
              /\ requests.th[t].dir # requests.th[u].dir
              /\ ContainerName(requests.th[t].dir) # ContainerName(requests.th[u].dir)
    /\ \A t \in Threads : HoldsWorkspace(t) => requests.th[t].dir \in dirs

C21_Witness ==
    /\ \A t \in Threads : requests.th[t].pc = "running"
    /\ requests.seen # {}
    /\ Cardinality(containers) = MaxThreads

Verdicts(res) == [k \in 1..Len(res) |-> res[k].passed]

HasResult(t) == requests.th[t].pc \in {"completed", "timed_out", "launch_failed"}

OneFailure == <<FALSE>>

\* The verdicts of a run whose harness ran to its end within the limit.
OwnVerdicts ==
    CASE requests.code = "passes" -> [k \in 1..MaxTests |-> TRUE]
      [] requests.code = "raises" -> [k \in 1..MaxTests |-> FALSE]
      [] OTHER -> OneFailure

LeftoverDirs == dirs \ {requests.th[t].dir : t \in Threads}

\* C22 as stated: every run of the same request on the same service returns
\* the same list of passed verdicts.
C22_SameVerdictsEveryRun ==
    /\ Cardinality(requests.seen) <= 1
    /\ \A t \in Threads :
          HasResult(t) => requests.seen \subseteq {Verdicts(requests.th[t].res)}

\* C22 amended: every run of the same request whose container command ends
\* within the time limit returns the same verdicts, whatever earlier runs
\* left on disk or in docker; a run cut by the time limit, or refused by
\* docker because a container left by a timed-out run still has its name,
\* returns one failed record instead.
C22_SameVerdictsWhenCompleted ==
    /\ [](/\ \A t \in Threads :
                /\ requests.th[t].pc = "completed" =>
                      Verdicts(requests.th[t].res) = OwnVerdicts
                /\ requests.th[t].pc \in {"timed_out", "launch_failed"} =>
                      Verdicts(requests.th[t].res) = OneFailure
          /\ requests.seen \subseteq {OwnVerdicts, OneFailure})
    /\ [][ \A t \in Threads :
             (requests.th[t].pc = "created" /\ requests'.th[t].pc = "launch_failed")
                => ContainerName(requests.th[t].dir) \in containers ]_vars

C22_Witness ==
    /\ requests.code = "passes"
    /\ requests.seen = {OwnVerdicts}
    /\ LeftoverDirs # {}
    /\ \E t \in Threads :
          /\ requests.th[t].pc = "completed"
          /\ Verdicts(requests.th[t].res) = [k \in 1..MaxTests |-> TRUE]

WireFields == RecordFields \cup {"memory_usage"}

\* C23 as stated: every record that execute_code returns has the seven
\* fields of the result wire shape.
C23_SevenFieldsOriginal ==
    pc = "returned" =>
        \A k \in 1..Len(result) : DOMAIN result[k] = WireFields

\* C23 amended: every record that execute_code returns has test_case_id,
\* passed (a boolean), actual_output, expected_output, execution_time and
\* error_message and no field outside the wire shape; memory_usage is there
\* in the records of tests that were run (and in the javascript/java and ruby
\* records) and missing in the synthetic and no-function records;
\* TestCaseResult.from_dict reads a missing memory_usage as None, so what the
\* analyzer hands on has all seven fields with the values of the record.
C23_SixFieldsAndFromDict ==
    pc = "returned" =>
        \A k \in 1..Len(result) :
            LET r == result[k]
                w == FromDict(r)
            IN /\ RecordFields \subseteq DOMAIN r
               /\ DOMAIN r \subseteq WireFields
               /\ r.passed \in BOOLEAN
               /\ ("memory_usage" \notin DOMAIN r) <=>
                     \/ r.test_case_id \in {"error", "timeout"}
                     \/ r.error_message = "No suitable function found"
               /\ DOMAIN w = WireFields
               /\ \A f \in DOMAIN r : w[f] = r[f]
               /\ "memory_usage" \notin DOMAIN r => w.memory_usage = None

C23_Witness ==
    /\ pc = "returned"
    /\ path = "completed"
    /\ Len(result) = MaxTests
    /\ "memory_usage" \notin DOMAIN result[1]
    /\ FromDict(result[1]).memory_usage = None

Graded(job) == grading.pc = "done" /\ grading.job = job

PassedAt(k) == k <= Len(grading.results) /\ grading.results[k].passed

WeightAt(k) ==
    IF "weight" \in DOMAIN grading.tcs[k] THEN grading.tcs[k].weight ELSE 1

RECURSIVE TotalWeight(_)
TotalWeight(n) == IF n = 0 THEN 0 ELSE WeightAt(n) + TotalWeight(n - 1)

RECURSIVE PassedWeight(_)
PassedWeight(n) ==
    IF n = 0 THEN 0
    ELSE (IF PassedAt(n) THEN WeightAt(n) ELSE 0) + PassedWeight(n - 1)

SingleSyntheticFailure ==
    /\ Len(grading.results) = 1
    /\ grading.results[1].test_case_id \in {"error", "timeout"}

\* C24: the score is the weight of the test cases whose result passed over
\* the weight of all test cases, and 0 when that total is 0; with weights
\* that are not negative it is between 0 and 1; it is 0 when execute_code
\* gave back a single synthetic failure record.
C24_WeightedFraction ==
    Graded("correctness") =>
        LET all == TotalWeight(Len(grading.tcs))
            passed == PassedWeight(Len(grading.tcs))
        IN /\ all = 0 => grading.score.num = 0
           /\ all > 0 => grading.score.num * all = passed * grading.score.den
           /\ grading.score.den > 0
           /\ 0 <= grading.score.num
           /\ grading.score.num <= grading.score.den
           /\ SingleSyntheticFailure => grading.score.num = 0

C24_Witness ==
    /\ Graded("correctness")
    /\ Len(grading.tcs) = MaxTests
    /\ Len(grading.results) = MaxTests
    /\ "weight" \notin DOMAIN grading.tcs[1]
    /\ grading.tcs[MaxTests].weight = 2
    /\ grading.results[1].passed
    /\ ~grading.results[MaxTests].passed
    /\ grading.score.num = 1
    /\ grading.score.den > 2

FullScore(r) == r.correctness_score.num = r.correctness_score.den

\* C30: every analysed MCQ answer has correctness_score 1.0 exactly when
\* is_correct is true, for single and for multiple selections.
C30_FullScoreIffCorrect ==
    Graded("mcq") =>
        \A k \in 1..Len(grading.results) :
            FullScore(grading.results[k]) <=> grading.results[k].is_correct

(***************************************************************************)
(* BackgroundWorker: analysis jobs run in threads of their own.            *)
(***************************************************************************)
MaxJobs == 2
MaxSolutions == 2

\* Job ids (uuid4 values, numbered in the order they are drawn) and the
\* solutions in the database, all of one test.
Jobs == 1..MaxJobs
Solutions == 1..MaxSolutions
NoId == 0
TheTest == 1

\* The fields of a job document the worker updates.
JobDoc(status, progress) == [status |-> status, progress |-> progress]
NoJob == JobDoc("none", 0)

\* What start_analysis_job is called with: job_type and the id in job_data
\* (test_id for "test", solution_id for "solution"; NoId when it is missing).
JobRequests ==
    { [job_type |-> "test", id |-> i] : i \in {NoId, TheTest} }
        \cup { [job_type |-> "solution", id |-> i] : i \in {NoId} \cup Solutions }
        \cup { [job_type |-> "all", id |-> NoId], [job_type |-> "export", id |-> NoId] }

\* The locals of one _run_job thread.  upd is the in-memory half of a
\* _update_job_status call whose database half has been done.
ThreadIdleJob ==
    [ pc |-> "unstarted", job_type |-> "", id |-> NoId, i |-> 1,
      unprocessed |-> <<>>, upd |-> NoJob, escaped |-> FALSE ]

\* BackgroundWorker.__init__ with an analysis collection that holds nothing.
WorkerIdle ==
    [ pc          |-> "on",
      db          |-> [j \in Jobs |-> NoJob],
      job         |-> [j \in Jobs |-> NoJob],
      active_jobs |-> {},
      job_threads |-> {},
      analyses    |-> [s \in Solutions |-> <<>>],
      starter     |-> [j \in Jobs |-> "idle"],
      thread      |-> [j \in Jobs |-> ThreadIdleJob] ]

WorkerInit ==
    /\ ServiceIdle
    /\ docker_available
    /\ harness = NoHarness
    /\ requests = NoRequests
    /\ grading = NoGrading
    /\ worker = WorkerIdle

WorkerFrame ==
    UNCHANGED <<docker_available, pc, calls, language, test_cases, timeout,
                temp_dir, dirs, files, results_file, containers, launched,
                elapsed, result, raised, path, exit_ran, todo, last,
                warnings, perm_seen, captured, harness, requests, grading>>

\* get_job_status: the in-memory job while it is registered, else the
\* document in the database.
GetJobStatus(j) ==
    IF j \in worker.active_jobs THEN worker.job[j] ELSE worker.db[j]

\* The database half of _update_job_status: only a stored job is updated.
UpdateJobInDb(db, j, status, progress) ==
    IF db[j] # NoJob THEN [db EXCEPT ![j] = JobDoc(status, progress)] ELSE db

\* int((i / total) * 100) for the zero-based loop index i.
Progress(i, total) == (i * 100) \div total

\* start_analysis_job up to the thread: the job document is made and stored
\* and the first log entry is added; a database call may raise to the caller.
StartAnalysisJob(j, req) ==
    /\ worker.starter[j] = "idle"
    /\ \A k \in Jobs : k < j => worker.starter[k] # "idle"
    /\ \/ worker' = [worker EXCEPT
              !.db[j] = JobDoc("pending", 0),
              !.job[j] = JobDoc("pending", 0),
              !.starter[j] = "created",
              !.thread[j].job_type = req.job_type,
              !.thread[j].id = req.id]
       \/ worker' = [worker EXCEPT !.starter[j] = "raised"]
       \/ worker' = [worker EXCEPT
              !.db[j] = JobDoc("pending", 0),
              !.starter[j] = "raised"]
    /\ WorkerFrame

\* thread.start(): _run_job begins to run beside the caller.
StartThread(j) ==
    /\ worker.starter[j] = "created"
    /\ worker' = [worker EXCEPT !.starter[j] = "started", !.thread[j].pc = "begin"]
    /\ WorkerFrame

\* with self.job_lock: job_threads[job_id] = thread; active_jobs[job_id] = job.
RegisterJob(j) ==
    /\ worker.starter[j] = "started"
    /\ worker' = [worker EXCEPT
           !.starter[j] = "returned",
           !.job_threads = @ \cup {j},
           !.active_jobs = @ \cup {j}]
    /\ WorkerFrame

\* The thread of job j stands at position p with no update half done.
At(j, p) == worker.thread[j].pc = p /\ worker.thread[j].upd = NoJob

\* A call made in the try block of _run_job raised: on to `except Exception`.
RaiseInJob(j) == worker' = [worker EXCEPT !.thread[j].pc = "except"]

\* _update_job_status(job_id, status, progress) followed by position p: the
\* database half is done here, the in-memory half is left in upd.
UpdateJobStatus(j, status, progress, p) ==
    worker' = [worker EXCEPT
        !.db = UpdateJobInDb(@, j, status, progress),
        !.thread[j].upd = JobDoc(status, progress),
        !.thread[j].pc = p]

\* The in-memory half of _update_job_status, under job_lock: the job is
\* changed only if it is registered in active_jobs.
UpdateInMemory(j) ==
    /\ worker.thread[j].upd # NoJob
    /\ worker' = [worker EXCEPT
           !.job[j] = IF j \in worker.active_jobs THEN worker.thread[j].upd ELSE @,
           !.thread[j].upd = NoJob]
    /\ WorkerFrame

\* _run_job, line 88.
RunJobBegin(j) ==
    /\ At(j, "begin")
    /\ \/ UpdateJobStatus(j, "running", 0, "dispatch")
       \/ RaiseInJob(j)
    /\ WorkerFrame

\* _run_job, lines 89-98, and the checks that open each _run_*_analysis.
Dispatch(j) ==
    /\ At(j, "dispatch")
    /\ LET t == worker.thread[j] IN
         \/ /\ t.job_type = "solution" /\ t.id # NoId
            /\ worker' = [worker EXCEPT !.thread[j].pc = "solution"]
         \/ /\ t.job_type = "test" /\ t.id # NoId
            /\ worker' = [worker EXCEPT !.thread[j].pc = "test_loop", !.thread[j].i = 1]
         \/ /\ t.job_type = "all"
            /\ worker' = [worker EXCEPT !.thread[j].pc = "all_filter", !.thread[j].i = 1]
         \/ RaiseInJob(j)
    /\ WorkerFrame

\* db_service.store_analysis: insert_one adds a document, whatever is there.
StoreAnalysis(analyses, s, j) == [analyses EXCEPT ![s] = Append(@, j)]

\* _run_solution_analysis: analyse and store, with no look at what is stored.
RunSolutionAnalysis(j) ==
    /\ At(j, "solution")
    /\ LET s == worker.thread[j].id IN
         \/ worker' = [worker EXCEPT
                !.analyses = StoreAnalysis(@, s, j), !.thread[j].pc = "complete"]
         \/ worker' = [worker EXCEPT
                !.analyses = StoreAnalysis(@, s, j), !.thread[j].pc = "except"]
         \/ RaiseInJob(j)
    /\ WorkerFrame

\* _run_test_analysis, lines 181-189 and 200: the look at the stored
\* analyses and the progress update for solution i, or the end of the loop.
RunTestLoop(j) ==
    /\ At(j, "test_loop")
    /\ LET i == worker.thread[j].i IN
         \/ /\ i > MaxSolutions
            /\ worker' = [worker EXCEPT !.thread[j].pc = "complete"]
         \/ /\ i <= MaxSolutions
            /\ worker.analyses[i] # <<>>
            /\ worker' = [worker EXCEPT !.thread[j].i = i + 1]
         \/ /\ i <= MaxSolutions
            /\ worker.analyses[i] = <<>>
            /\ UpdateJobStatus(j, "running", Progress(i - 1, MaxSolutions), "test_store")
         \/ RaiseInJob(j)
    /\ WorkerFrame

\* _run_test_analysis, lines 192-197: analyze_solution and store_analysis.
RunTestStore(j) ==
    /\ At(j, "test_store")
    /\ LET i == worker.thread[j].i IN
         \/ worker' = [worker EXCEPT
                !.analyses = StoreAnalysis(@, i, j),
                !.thread[j].i = i + 1,
                !.thread[j].pc = "test_loop"]
         \/ RaiseInJob(j)
    /\ WorkerFrame

\* _run_all_analysis, lines 212-222: the unprocessed solutions are collected
\* one look at a time before any of them is analysed.
RunAllFilter(j) ==
    /\ At(j, "all_filter")
    /\ LET t == worker.thread[j] IN
         \/ /\ t.i <= MaxSolutions
            /\ worker' = [worker EXCEPT
                   !.thread[j].unprocessed =
                       IF worker.analyses[t.i] = <<>> THEN Append(@, t.i) ELSE @,
                   !.thread[j].i = t.i + 1]
         \/ /\ t.i > MaxSolutions
            /\ worker' = [worker EXCEPT
                   !.thread[j].pc =
                       IF t.unprocessed = <<>> THEN "complete" ELSE "all_loop",
                   !.thread[j].i = 1]
         \/ RaiseInJob(j)
    /\ WorkerFrame

\* _run_all_analysis, lines 228-238 and 249.
RunAllLoop(j) ==
    /\ At(j, "all_loop")
    /\ LET t == worker.thread[j] IN
         \/ /\ t.i > Len(t.unprocessed)
            /\ worker' = [worker EXCEPT !.thread[j].pc = "complete"]
         \/ /\ t.i <= Len(t.unprocessed)
            /\ UpdateJobStatus(j, "running", Progress(t.i - 1, Len(t.unprocessed)),
                               "all_store")
         \/ RaiseInJob(j)
    /\ WorkerFrame

\* _run_all_analysis, lines 241-246.
RunAllStore(j) ==
    /\ At(j, "all_store")
    /\ LET t == worker.thread[j] IN
         \/ worker' = [worker EXCEPT
                !.analyses = StoreAnalysis(@, t.unprocessed[t.i], j),
                !.thread[j].i = t.i + 1,
                !.thread[j].pc = "all_loop"]
         \/ RaiseInJob(j)
    /\ WorkerFrame

\* _run_job, line 100.
CompleteJob(j) ==
    /\ At(j, "complete")
    /\ \/ UpdateJobStatus(j, "completed", 100, "log_done")
       \/ RaiseInJob(j)
    /\ WorkerFrame

\* _run_job, line 101: the last log entry is added inside the try block.
LogCompleted(j) ==
    /\ At(j, "log_done")
    /\ \/ worker' = [worker EXCEPT !.thread[j].pc = "finally"]
       \/ RaiseInJob(j)
    /\ WorkerFrame

\* _run_job, lines 103-105; an exception raised here leaves the thread
\* through the finally block.
ExceptInJob(j) ==
    /\ At(j, "except")
    /\ \/ UpdateJobStatus(j, "failed", 0, "except_log")
       \/ worker' = [worker EXCEPT !.thread[j].pc = "finally", !.thread[j].escaped = TRUE]
    /\ WorkerFrame

\* _run_job, line 106.
ExceptLog(j) ==
    /\ At(j, "except_log")
    /\ \/ worker' = [worker EXCEPT !.thread[j].pc = "finally"]
       \/ worker' = [worker EXCEPT !.thread[j].pc = "finally", !.thread[j].escaped = TRUE]
    /\ WorkerFrame

\* _run_job, lines 108-114: under job_lock the job is taken out of
\* active_jobs and job_threads if it is there.
FinallyInJob(j) ==
    /\ At(j, "finally")
    /\ worker' = [worker EXCEPT
           !.active_jobs = @ \ {j},
           !.job_threads = @ \ {j},
           !.thread[j].pc = "done"]
    /\ WorkerFrame

WorkerNext ==
    \/ \E j \in Jobs, req \in JobRequests : StartAnalysisJob(j, req)
    \/ \E j \in Jobs : StartThread(j)
    \/ \E j \in Jobs : RegisterJob(j)
    \/ \E j \in Jobs : UpdateInMemory(j)
    \/ \E j \in Jobs : RunJobBegin(j)
    \/ \E j \in Jobs : Dispatch(j)
    \/ \E j \in Jobs : RunSolutionAnalysis(j)
    \/ \E j \in Jobs : RunTestLoop(j)
    \/ \E j \in Jobs : RunTestStore(j)
    \/ \E j \in Jobs : RunAllFilter(j)
    \/ \E j \in Jobs : RunAllLoop(j)
    \/ \E j \in Jobs : RunAllStore(j)
    \/ \E j \in Jobs : CompleteJob(j)
    \/ \E j \in Jobs : LogCompleted(j)
    \/ \E j \in Jobs : ExceptInJob(j)
    \/ \E j \in Jobs : ExceptLog(j)
    \/ \E j \in Jobs : FinallyInJob(j)

WorkerSpec == WorkerInit /\ [][WorkerNext]_vars

(***************************************************************************)
(* The lifecycle of one execute_code request.                              *)
(***************************************************************************)
\* The steps of a call in progress are taken: the interpreter runs on, and
\* subprocess.run returns or raises within its limit.
FairSpec == Spec /\ WF_vars(CallStep)

\* The stage of the request in hand, read off the position of the call.
Stage ==
    CASE pc \in {"write", "run"} -> "Created"
      [] pc = "running" -> "Running"
      [] pc = "read" -> "Completed"
      [] pc = "cleanup" -> "Cleaning"
      [] pc = "returned" /\ Allocated -> "Cleaned"
      [] OTHER -> "None"

ErrorPaths ==
    {"write_failed", "dummy_error", "launch_error", "runtime_error", "missing",
     "unparseable"}

\* C25 as stated: a request that allocated a workspace has gone through
\* Running and ends in exactly one of Completed (the parsed per-test
\* records), TimedOut (the single "timeout" record) and LaunchFailed (the
\* single "error" record) before it is Cleaned.
C25_LifecycleOriginal ==
    Stage = "Cleaned" =>
        /\ exit_ran
        /\ launched
        /\ \/ /\ path = "completed"
              /\ results_file # Absent /\ results_file # Garbage
              /\ result = results_file.value
           \/ /\ path = "timeout"
              /\ IsSyntheticFailure(result, "timeout")
           \/ /\ path \in {"launch_error", "runtime_error"}
              /\ IsSyntheticFailure(result, "error")

\* The outcome and its result shape once the `with` block has been left.
OutcomeShape ==
    Stage \in {"Cleaning", "Cleaned"} =>
        /\ exit_ran
        /\ path \in {"completed", "dummy", "timeout"} \cup ErrorPaths
        /\ path = "completed" =>
              /\ results_file # Absent /\ results_file # Garbage
              /\ result = results_file.value
        /\ path = "dummy" =>
              /\ language \in DummyLanguages
              /\ ~launched
              /\ Len(result) = Len(test_cases)
        /\ path = "timeout" => result = <<TimeoutRecord(timeout)>>
        /\ path \in ErrorPaths => IsSyntheticFailure(result, "error")

\* The order of the stages: which stage follows which.
StageOrder ==
    /\ Stage = "None" => Stage' \in {"None", "Created"}
    /\ Stage = "Created" => Stage' \in {"Created", "Running", "Cleaning"}
    /\ Stage = "Running" => Stage' \in {"Running", "Completed", "Cleaning"}
    /\ Stage = "Completed" => Stage' \in {"Completed", "Cleaning"}
    /\ Stage = "Cleaning" => Stage' \in {"Cleaning", "Cleaned"}
    /\ Stage = "Cleaned" => Stage' \in {"Cleaned", "None"}
    /\ (Stage' = "Cleaning" /\ Stage # "Cleaning") =>
          /\ path' = "timeout" => Stage = "Running"
          /\ path' \in {"completed", "missing", "unparseable"} => Stage = "Completed"
          /\ path' \in {"write_failed", "dummy", "dummy_error"} => Stage = "Created"
          /\ path' \in {"launch_error", "runtime_error"} => Stage \in {"Created", "Running"}
    /\ Stage = "Cleaning" => (path' = path /\ result' = result)

\* C25 amended: a request that allocated a workspace goes Created ->
\* (Running -> (Completed)) -> Cleaning -> Cleaned; Running is skipped when an
\* artifact cannot be written, for javascript/java and when docker cannot
\* start the container; the cleanup is always run and the call always
\* returns; "completed" yields the parsed records, javascript/java one record
\* per test case, a timeout the single "timeout" record, and every other
\* outcome (also a container that ended normally without a readable results
\* file) the single "error" record.
C25_Lifecycle ==
    /\ []OutcomeShape
    /\ [][StageOrder]_vars
    /\ (Stage = "Created") ~> (Stage = "Cleaned")

\* C25 witness: a container that ended normally, left no results file, and
\* whose request was cleaned up and returned the single "error" record.
C25_Witness ==
    /\ Stage = "Cleaned"
    /\ launched
    /\ path = "missing"
    /\ exit_ran
    /\ IsSyntheticFailure(result, "error")

(***************************************************************************)
(* javascript and java: results without a sandbox.                         *)
(***************************************************************************)
MadeUpLanguage == language \in {"javascript", "java"}

\* One passing record per test case, echoing the expected output.
AllPassEcho(res, tcs) ==
    /\ Len(res) = Len(tcs)
    /\ \A i \in 1..Len(tcs) :
          /\ res[i].test_case_id = "test_" \o ToString(i - 1)
          /\ res[i].passed = TRUE
          /\ res[i].actual_output = tcs[i].expected_output
          /\ res[i].expected_output = tcs[i].expected_output
          /\ res[i].execution_time = 0
          /\ res[i].error_message = None

\* No container is started while a javascript/java request is in hand.
NoSandbox == [][ MadeUpLanguage => (containers' \subseteq containers /\ ~launched') ]_vars

\* C26 as stated: with docker available, a javascript or java request never
\* launches a sandbox and returns one passing record per test case
\* (actual_output = expected_output, execution_time 0, error_message null).
C26_DummyAlwaysPassesOriginal ==
    /\ [](MadeUpLanguage => ~launched)
    /\ []((pc = "returned" /\ MadeUpLanguage /\ docker_available) =>
              AllPassEcho(result, test_cases))
    /\ NoSandbox

\* C26 amended: with docker available, a javascript or java request never
\* launches a sandbox; it returns one passing record per test case unless the
\* workspace cannot be made, an artifact cannot be written, or the test cases
\* or results file cannot be read or written, and then it returns the single
\* "error" record.
C26_DummyPassesUnlessIoFails ==
    /\ [](MadeUpLanguage => ~launched)
    /\ []((pc = "returned" /\ MadeUpLanguage /\ docker_available) =>
              \/ path = "dummy" /\ AllPassEcho(result, test_cases)
              \/ /\ path \in {"mkdtemp_failed", "write_failed", "dummy_error"}
                 /\ IsSyntheticFailure(result, "error"))
    /\ NoSandbox

\* C26 witness: a java request with MaxTests test cases returned all of them
\* as passed and no container was started.
C26_Witness ==
    /\ pc = "returned"
    /\ language = "java"
    /\ docker_available
    /\ ~launched
    /\ path = "dummy"
    /\ Len(test_cases) = MaxTests
    /\ AllPassEcho(result, test_cases)

(***************************************************************************)
(* Background jobs.                                                        *)
(***************************************************************************)
Rank(status) ==
    CASE status = "none" -> 0
      [] status = "pending" -> 1
      [] status = "running" -> 2
      [] OTHER -> 3

FinalStatus(status) == status \in {"completed", "failed"}

JobOver(j) == worker.thread[j].pc = "done" /\ worker.starter[j] = "returned"

\* C27: the status of a job, in the database and as get_job_status gives it,
\* only moves forward pending -> running -> completed or failed; a final
\* status is never updated again; a job whose thread has ended has a final
\* status; completed goes with progress 100.
C27_StatusOnlyForward ==
    /\ [][ \A j \in Jobs :
             /\ Rank(worker'.db[j].status) >= Rank(worker.db[j].status)
             /\ Rank(GetJobStatus(j)'.status) >= Rank(GetJobStatus(j).status)
             /\ FinalStatus(worker.db[j].status) => worker'.db[j] = worker.db[j]
             /\ FinalStatus(GetJobStatus(j).status) => GetJobStatus(j)' = GetJobStatus(j)
          ]_vars
    /\ [](\A j \in Jobs :
             /\ JobOver(j) => FinalStatus(GetJobStatus(j).status)
             /\ GetJobStatus(j).status = "completed" => GetJobStatus(j).progress = 100
             /\ worker.db[j].status = "completed" => worker.db[j].progress = 100)

\* C28: once the thread of a job has finished and start_analysis_job has
\* returned, the job is in neither active_jobs nor job_threads.
C28_FinishedJobNotRegistered ==
    \A j \in Jobs :
        JobOver(j) => (j \notin worker.active_jobs /\ j \notin worker.job_threads)

\* The analyses of solution s that "test" and "all" jobs stored.
StoredByBatchJobs(s) ==
    { k \in 1..Len(worker.analyses[s]) :
         worker.thread[worker.analyses[s][k]].job_type \in {"test", "all"} }

\* C29: "test" and "all" jobs never analyse a solution that has a stored
\* analysis: a batch job stores an analysis only for a solution that has
\* none, so such jobs store at most one analysis per solution.
C29_AtMostOneAnalysis ==
    /\ [][ \A s \in Solutions :
             (/\ worker'.analyses[s] # worker.analyses[s]
              /\ worker.thread[worker'.analyses[s][Len(worker'.analyses[s])]].job_type
                    \in {"test", "all"})
               => worker.analyses[s] = <<>> ]_vars
    /\ [](\A s \in Solutions : Cardinality(StoredByBatchJobs(s)) <= 1)

====
